---- MODULE Spec2Model ----
(***************************************************************************)
(* State-machine model of the scoutai-action browser core:                 *)
(*   - the site crawler        (src/src/crawler/index.ts)                  *)
(*   - the flow executor       (src/unnamed/part_003, executor/playwright)  *)
(*   - the action entry point  (src/unnamed/part_000, run)                  *)
(* URLs are records [o |-> origin, p |-> path] standing for the string     *)
(* "http://" o p ; p = "" is a URL written without a trailing slash.       *)
(***************************************************************************)
EXTENDS Integers, Sequences, FiniteSets, TLC

VARIABLES
  \* ---- crawlSite ----
  cpc,            \* position inside crawlSite
  baseUrl,        \* argument baseUrl (raw string)
  maxPages,       \* argument maxPages
  priorityPaths,  \* argument priorityPaths
  credentials,    \* argument credentials (NoCreds when undefined)
  toVisit,        \* const toVisit: string[]
  visited,        \* const visited = new Set<string>()
  pages,          \* const pages: PageContext[]
  authResult,     \* let authResult: AuthResult | undefined
  pendingAuth,    \* value authenticate() is about to return (before finally)
  cur,            \* normalizedUrl of the page being crawled
  browserOpen,    \* the crawler's browser is launched and not yet closed
  openTabs,       \* pages opened with context.newPage() and not yet closed
  authAttempts,   \* number of calls of authenticate() in this crawl
  navigated,      \* URLs handed to crawlPageWithContext, in order
  initialQueue,   \* toVisit as seeded, before the while loop
  stillOnLogin,   \* page.url() after the submit contains /login or /signin
  failedUrls,     \* URLs whose crawl threw (caught at line 491)
  \* ---- executeFlows / PlaywrightExecutor ----
  epc,            \* position inside executeFlows
  flows,          \* argument flows
  viewports,      \* argument viewports
  maxDurationMs,  \* argument maxDurationMs
  testAccount,    \* argument testAccount (NoAccount when null)
  now,            \* Date.now() - startTime
  sortedFlows,    \* const sortedFlows
  vi,             \* index of the current viewport in viewports
  fi,             \* index of the current flow in sortedFlows
  results,        \* const results: ResultPayload[]
  stepResults,    \* executeFlow: stepResults
  screenshotUrls, \* executeFlow: screenshotUrls
  flowStatus,     \* executeFlow: flowStatus
  errorMessage,   \* executeFlow: errorMessage
  si,             \* executeFlow: loop index i, counted from 1
  throwing,       \* the exception propagating out of executeFlows ("" if none)
  execStillOnLogin, \* the login page's URL after the submit contains /login
  storageState,   \* this.storageState is set (not null)
  execBrowser,    \* this.browser is launched and not yet closed
  openContexts,   \* browser contexts opened and not yet closed
  execAuthAttempts, \* number of calls of PlaywrightExecutor.authenticate
  contextLog,     \* one entry per context opened for a flow
  \* ---- run (action entry point) ----
  rpc,            \* position inside run
  mode,           \* input mode: "fast" or "deep"
  account,        \* let testAccount (NoAccount when null)
  testPlan,       \* testPlan.flows returned by generatePlan
  apiCalls,       \* run-lifecycle calls made on the API client, in order
  overallStatus,  \* the status output ("" while not set)
  \* ---- crawlPageWithContext: selector synthesis for one element ----
  spc,            \* position: "dom" before the extraction, "done" after
  elem,           \* the DOM element
  elemKind,       \* which list the element is extracted for
  elemIndex,      \* index of the element in its querySelectorAll list
  container,      \* selector of the enclosing form (form inputs)
  selector,       \* the selector synthesized for the element
  collected,      \* the element stays in the list after the filter
  \* ---- executeStep: locator resolution for one selector ----
  lpc,            \* position: "step" before smartLocator, "located", "acted"
  locSelector,    \* step.selector, a string as a sequence of tokens
  locElement,     \* an element of the page under test
  locator,        \* the locator smartLocator returned
  locMatched,     \* the locator resolves to locElement
  \* ---- run: project and base URL resolution ----
  bpc,            \* position inside the first part of run
  inputBaseUrl,   \* core.getInput('base-url') ("" when not provided)
  cfgBaseUrl,     \* let baseUrl
  projectId,      \* let projectId ("" when not provided)
  project,        \* the project ScoutAI holds for this repository
  cfgMode,        \* input mode
  previewUrl,     \* what detectPreviewUrl() returns ("" for null)
  environment,    \* let environment
  cfgError,       \* message of the Error thrown ("" if none)
  \* ---- executeStep: a 'wait' step ----
  wpc,            \* position: "step" before the wait, "done" after
  waitValue,      \* step.value
  waitTime,       \* const waitTime
  paused,         \* milliseconds page.waitForTimeout paused for
  waitThrew       \* page.waitForTimeout rejected

crawlVars == <<cpc, baseUrl, maxPages, priorityPaths, credentials, toVisit,
               visited, pages, authResult, pendingAuth, cur, browserOpen,
               openTabs, authAttempts, navigated, initialQueue,
               stillOnLogin, failedUrls>>

execVars == <<epc, flows, viewports, maxDurationMs, testAccount, now,
              sortedFlows, vi, fi, results, stepResults, screenshotUrls,
              flowStatus, errorMessage, si, throwing, execStillOnLogin,
              storageState, execBrowser, openContexts, execAuthAttempts,
              contextLog>>

runVars == <<rpc, mode, account, testPlan, apiCalls, overallStatus>>

selVars == <<spc, elem, elemKind, elemIndex, container, selector, collected>>

locVars == <<lpc, locSelector, locElement, locator, locMatched>>

cfgVars == <<bpc, inputBaseUrl, cfgBaseUrl, projectId, project, cfgMode,
             previewUrl, environment, cfgError>>

waitVars == <<wpc, waitValue, waitTime, paused, waitThrew>>

vars == <<crawlVars, execVars, runVars, selVars, locVars, cfgVars, waitVars>>

(***************************************************************************)
(* Bounds                                                                  *)
(***************************************************************************)
MaxPagesBound == 3   \* maxPages ranges over 0..MaxPagesBound
MaxPaths      == 2   \* length of priorityPaths
MaxLinks      == 2   \* links extracted from one page
MaxFlows      == 2   \* length of flows
MaxViewports  == 2   \* length of viewports
MaxDuration   == 1   \* maxDurationMs ranges over 0..MaxDuration
MaxTick       == 1   \* clock ticks one browser operation can take

(***************************************************************************)
(* URL strings                                                             *)
(***************************************************************************)
Url(o, p) == [o |-> o, p |-> p]

BaseUrls == {Url("app", ""), Url("app", "/")}

\* new URL(absolute).href : an absolute URL without a path gets the path "/"
Canon(u) == Url(u.o, IF u.p = "" THEN "/" ELSE u.p)

\* raw href / path strings: root-relative "/a", absolute "http://o/p",
\* protocol-relative "//o/p", and strings new URL() rejects
RootRel(p)     == [k |-> "root",  o |-> "",  p |-> p]
Abs(o, p)      == [k |-> "abs",   o |-> o,   p |-> p]
ProtoRel(o, p) == [k |-> "proto", o |-> o,   p |-> p]
Invalid        == [k |-> "bad",   o |-> "",  p |-> ""]

\* new URL(h, baseUrl).href
Resolve(h, base) ==
  CASE h.k = "root"  -> Url(base.o, h.p)
    [] h.k = "abs"   -> Canon(Url(h.o, h.p))
    [] h.k = "proto" -> Canon(Url(h.o, h.p))

\* new URL(h, baseUrl) throws
Resolvable(h) == h.k # "bad"

\* string-prefix relation between the strings "http://" o: "http://app" is a
\* prefix of "http://app.evil"
OriginPrefix(o1, o2) == o1 = o2 \/ (o1 = "app" /\ o2 = "app.evil")

\* href.startsWith('/')
StartsWithSlash(h) == h.k \in {"root", "proto"}

\* href.startsWith(baseUrl)
StartsWithBase(h, base) ==
  /\ h.k = "abs"
  /\ IF base.p = "" THEN OriginPrefix(base.o, h.o)
                    ELSE h.o = base.o /\ h.p # ""

\* href attributes found on crawled pages
Hrefs == {RootRel("/a"), Abs("app", "/b"), Abs("app.evil", "/a"),
          ProtoRel("evil", "/b"), Abs("evil", "/a")}

\* strings passed as priority paths
PathInputs == {RootRel("/a"), RootRel("/"), Invalid}

RECURSIVE SeqsUpTo(_, _)
SeqsUpTo(S, n) ==
  IF n = 0 THEN {<<>>}
  ELSE LET R == SeqsUpTo(S, n - 1)
       IN  R \cup {Append(s, x) : s \in {r \in R : Len(r) = n - 1}, x \in S}

Range(s) == {s[i] : i \in 1..Len(s)}
Includes(s, x) == x \in Range(s)
(***************************************************************************)
(* Crawl authentication (crawler/index.ts, authenticate)                   *)
(***************************************************************************)
NoUrl    == Url("", "")
NoCreds  == [present |-> FALSE, successIndicator |-> ""]
NoAuth   == [defined |-> FALSE, success |-> FALSE, postLoginUrl |-> NoUrl,
             error |-> ""]

\* successIndicator: "" (not configured), a URL pattern starting with "/",
\* or a CSS selector
Indicators == {"", "/a", "#dash"}
CredentialInputs ==
  {NoCreds} \cup {[present |-> TRUE, successIndicator |-> i] : i \in Indicators}

\* the URL the login page can be at after the submit
PostSubmitUrls == {Url("app", "/login"), Url("app", "/signin"),
                   Url("app", "/login?next=/a"), Url("app", "/a"),
                   Url("app", "/dash")}

\* url.includes('/login') || url.includes('/signin')
ContainsLogin(u) == u.p \in {"/login", "/signin", "/login?next=/a"}

\* page.waitForURL(`**${indicator}*`) is satisfied by the URL
MatchesPattern(u, ind) == ind = "/a" /\ u.p \in {"/a", "/login?next=/a"}

\* what the browser does during one login attempt: an exception in goto /
\* fill / click / waitForLoadState, the URL after the submit, whether a
\* selector indicator becomes visible, the text of an error element
AuthOutcomes ==
  [exc : BOOLEAN, url : PostSubmitUrls, visible : BOOLEAN,
   errText : {"", "Invalid credentials"}]

AuthFail(msg) ==
  [defined |-> TRUE, success |-> FALSE, postLoginUrl |-> NoUrl, error |-> msg]

\* lines 136-162: judge the login by the URL the page is at
JudgeByUrl(out) ==
  IF ContainsLogin(out.url)
    THEN AuthFail(IF out.errText # "" THEN out.errText
                  ELSE "Login failed - still on login page after submit")
    ELSE [defined |-> TRUE, success |-> TRUE, postLoginUrl |-> out.url,
          error |-> ""]

\* a configured success indicator taken as proof of the login, without
\* looking at the URL
AuthenticateResultTrustIndicator(creds, out) ==
  IF out.exc THEN AuthFail("error.message")
  ELSE IF creds.successIndicator # ""
    THEN IF creds.successIndicator = "/a"
           THEN IF MatchesPattern(out.url, creds.successIndicator)
                  THEN [defined |-> TRUE, success |-> TRUE,
                        postLoginUrl |-> out.url, error |-> ""]
                  ELSE AuthFail("error.message")
           ELSE IF out.visible
                  THEN [defined |-> TRUE, success |-> TRUE,
                        postLoginUrl |-> out.url, error |-> ""]
                  ELSE AuthFail("error.message")
    ELSE JudgeByUrl(out)

\* lines 82-167: the try block of authenticate and its catch
AuthenticateResult(creds, out) ==
  IF out.exc THEN AuthFail("error.message")
  ELSE IF creds.successIndicator # ""
    THEN IF creds.successIndicator = "/a"
           THEN IF MatchesPattern(out.url, creds.successIndicator)
                  THEN JudgeByUrl(out)
                  ELSE AuthFail("error.message")
           ELSE IF out.visible THEN JudgeByUrl(out)
                               ELSE AuthFail("error.message")
    ELSE JudgeByUrl(out)

(***************************************************************************)
(* crawlSite (crawler/index.ts)                                            *)
(***************************************************************************)
\* lines 442-452: the priority paths, resolved, each added once
RECURSIVE SeedPriority(_, _, _)
SeedPriority(q, paths, base) ==
  IF paths = <<>> THEN q
  ELSE LET h == Head(paths)
           q2 == IF Resolvable(h) /\ ~Includes(q, Resolve(h, base))
                   THEN Append(q, Resolve(h, base)) ELSE q
       IN  SeedPriority(q2, Tail(paths), base)

\* line 439
StartUrl(auth, base) ==
  IF auth.defined /\ auth.postLoginUrl # NoUrl THEN auth.postLoginUrl ELSE base

\* the landing URL and baseUrl seeded ahead of the priority paths
SeedQueueStartFirst(paths, auth, base) ==
  LET s  == StartUrl(auth, base)
      q1 == IF s # base THEN <<s, base>> ELSE <<s>>
  IN  SeedPriority(q1, paths, base)

\* lines 436-462
SeedQueue(paths, auth, base) ==
  LET q1 == SeedPriority(<<>>, paths, base)
      s  == StartUrl(auth, base)
      q2 == IF ~Includes(q1, s) THEN Append(q1, s) ELSE q1
  IN  IF s # base /\ ~Includes(q2, base) THEN Append(q2, base) ELSE q2

\* every internal link enqueued, also when visited or queued
RECURSIVE EnqueueLinksUnchecked(_, _, _, _)
EnqueueLinksUnchecked(q, links, vis, base) ==
  IF links = <<>> THEN q
  ELSE LET h == Head(links)
           q2 == IF StartsWithSlash(h) \/ StartsWithBase(h, base)
                   THEN Append(q, Resolve(h, base)) ELSE q
       IN  EnqueueLinksUnchecked(q2, Tail(links), vis, base)

\* line 481
IsInternalLink(h, base) == StartsWithSlash(h) \/ StartsWithBase(h, base)

\* lines 480-487
RECURSIVE EnqueueLinks(_, _, _, _)
EnqueueLinks(q, links, vis, base) ==
  IF links = <<>> THEN q
  ELSE LET h == Head(links)
           f == Resolve(h, base)
           q2 == IF IsInternalLink(h, base) /\ f \notin vis /\ ~Includes(q, f)
                   THEN Append(q, f) ELSE q
       IN  EnqueueLinks(q2, Tail(links), vis, base)

\* crawlSite is called: the arguments, and the locals of lines 412-414
CrawlCall(creds, paths) ==
  /\ cpc = "start"
  /\ baseUrl \in BaseUrls
  /\ maxPages \in 0..MaxPagesBound
  /\ priorityPaths \in paths
  /\ credentials \in creds
  /\ toVisit = <<>>
  /\ visited = {}
  /\ pages = <<>>
  /\ authResult = NoAuth
  /\ pendingAuth = NoAuth
  /\ cur = NoUrl
  /\ browserOpen = FALSE
  /\ openTabs = 0
  /\ authAttempts = 0
  /\ navigated = <<>>
  /\ initialQueue = <<>>
  /\ stillOnLogin = FALSE
  /\ failedUrls = {}

\* lines 417-424: launch the browser and create the shared context, both
\* ahead of the try block: a launch failure propagates with nothing open,
\* a newContext failure propagates past the finally of line 497
CrawlLaunch ==
  /\ UNCHANGED <<execVars, runVars, selVars, locVars, cfgVars, waitVars>>
  /\ cpc = "start"
  /\ \/ /\ browserOpen' = TRUE
        /\ cpc' = IF credentials.present THEN "auth" ELSE "seed"
     \/ /\ browserOpen' = FALSE
        /\ cpc' = "thrown"
     \/ /\ browserOpen' = TRUE
        /\ cpc' = "thrown"
  /\ UNCHANGED <<baseUrl, maxPages, priorityPaths, credentials, toVisit,
                 visited, pages, authResult, pendingAuth, cur, openTabs,
                 authAttempts, navigated, initialQueue, stillOnLogin,
                 failedUrls>>

\* lines 426, 80: call authenticate, which opens a page outside its try
CrawlAuthOpen ==
  /\ UNCHANGED <<execVars, runVars, selVars, locVars, cfgVars, waitVars>>
  /\ cpc = "auth"
  /\ authAttempts' = authAttempts + 1
  /\ \/ /\ openTabs' = openTabs + 1
        /\ cpc' = "authPage"
        /\ UNCHANGED browserOpen
     \/ /\ cpc' = "thrown"          \* newPage throws; crawlSite's finally
        /\ browserOpen' = FALSE
        /\ UNCHANGED openTabs
  /\ UNCHANGED <<baseUrl, maxPages, priorityPaths, credentials, toVisit,
                 visited, pages, authResult, pendingAuth, cur, navigated,
                 initialQueue, stillOnLogin,
                 failedUrls>>

\* lines 82-167
CrawlAuthLogin ==
  /\ UNCHANGED <<execVars, runVars, selVars, locVars, cfgVars, waitVars>>
  /\ cpc = "authPage"
  /\ \E out \in AuthOutcomes :
       /\ pendingAuth' = AuthenticateResult(credentials, out)
       /\ stillOnLogin' = ContainsLogin(out.url)
  /\ cpc' = "authClose"
  /\ UNCHANGED <<baseUrl, maxPages, priorityPaths, credentials, toVisit,
                 visited, pages, authResult, cur, browserOpen, openTabs,
                 authAttempts, navigated, initialQueue,
                 failedUrls>>

\* lines 168-170, 426-433: finally page.close(); the result is recorded and
\* the crawl goes on whatever it is
CrawlAuthClose ==
  /\ UNCHANGED <<execVars, runVars, selVars, locVars, cfgVars, waitVars>>
  /\ cpc = "authClose"
  /\ openTabs' = openTabs - 1
  /\ authResult' = pendingAuth
  /\ cpc' = "seed"
  /\ UNCHANGED <<baseUrl, maxPages, priorityPaths, credentials, toVisit,
                 visited, pages, pendingAuth, cur, browserOpen, authAttempts,
                 navigated, initialQueue, stillOnLogin,
                 failedUrls>>

\* lines 435-462
CrawlSeed ==
  /\ UNCHANGED <<execVars, runVars, selVars, locVars, cfgVars, waitVars>>
  /\ cpc = "seed"
  /\ toVisit' = SeedQueue(priorityPaths, authResult, baseUrl)
  /\ initialQueue' = toVisit'
  /\ cpc' = "loop"
  /\ UNCHANGED <<baseUrl, maxPages, priorityPaths, credentials, visited,
                 pages, authResult, pendingAuth, cur, browserOpen, openTabs,
                 authAttempts, navigated, stillOnLogin,
                 failedUrls>>

\* the loop without the page budget
LoopConditionNoBudget == toVisit # <<>>

\* the budget counted in navigations instead of collected pages
LoopConditionCountNavigated == toVisit # <<>> /\ Len(navigated) < maxPages

\* line 464
LoopCondition == toVisit # <<>> /\ Len(pages) < maxPages

\* a visited set that is never consulted
AlreadyVisitedNever(u) == FALSE

\* line 469: visited.has(normalizedUrl)
AlreadyVisited(u) == u \in visited

\* lines 464-470: pop the head, skip it if visited, else mark it visited
CrawlDequeue ==
  /\ UNCHANGED <<execVars, runVars, selVars, locVars, cfgVars, waitVars>>
  /\ cpc = "loop"
  /\ LoopCondition
  /\ toVisit' = Tail(toVisit)
  /\ LET normalizedUrl == Canon(Head(toVisit))
     IN  IF AlreadyVisited(normalizedUrl)
           THEN /\ cpc' = "loop"
                /\ UNCHANGED <<visited, cur>>
           ELSE /\ visited' = visited \cup {normalizedUrl}
                /\ cur' = normalizedUrl
                /\ cpc' = "open"
  /\ UNCHANGED <<baseUrl, maxPages, priorityPaths, credentials, pages,
                 authResult, pendingAuth, browserOpen, openTabs,
                 authAttempts, navigated, initialQueue, stillOnLogin,
                 failedUrls>>

\* a page error that leaves crawlSite instead of being caught
CaughtPageErrorRethrown == "thrown"

\* lines 491-493: the catch logs a warning and the while loop goes on
CaughtPageError == "loop"

\* line 474: context.newPage(); a failure is caught at line 491
CrawlOpenTab ==
  /\ UNCHANGED <<execVars, runVars, selVars, locVars, cfgVars, waitVars>>
  /\ cpc = "open"
  /\ \/ /\ openTabs' = openTabs + 1
        /\ cpc' = "fetch"
        /\ UNCHANGED failedUrls
     \/ /\ cpc' = CaughtPageError
        /\ failedUrls' = failedUrls \cup {cur}
        /\ UNCHANGED openTabs
  /\ UNCHANGED <<baseUrl, maxPages, priorityPaths, credentials, toVisit,
                 visited, pages, authResult, pendingAuth, cur, browserOpen,
                 authAttempts, navigated, initialQueue, stillOnLogin>>

\* lines 476-487: crawlPageWithContext either throws (navigation timeout,
\* evaluation error) or returns the page with its links
CrawlFetch ==
  /\ UNCHANGED <<execVars, runVars, selVars, locVars, cfgVars, waitVars>>
  /\ cpc = "fetch"
  /\ navigated' = Append(navigated, cur)
  /\ \/ /\ failedUrls' = failedUrls \cup {cur}
        /\ UNCHANGED <<pages, toVisit>>
     \/ \E links \in SeqsUpTo(Hrefs, MaxLinks) :
          /\ pages' = Append(pages, [url |-> cur])
          /\ toVisit' = EnqueueLinks(toVisit, links, visited, baseUrl)
          /\ UNCHANGED failedUrls
  /\ cpc' = "close"
  /\ UNCHANGED <<baseUrl, maxPages, priorityPaths, credentials, visited,
                 authResult, pendingAuth, cur, browserOpen, openTabs,
                 authAttempts, initialQueue, stillOnLogin>>

\* lines 488-493: finally page.close(), then the next iteration
CrawlCloseTab ==
  /\ UNCHANGED <<execVars, runVars, selVars, locVars, cfgVars, waitVars>>
  /\ cpc = "close"
  /\ openTabs' = openTabs - 1
  /\ cpc' = IF cur \in failedUrls THEN CaughtPageError ELSE "loop"
  /\ UNCHANGED <<baseUrl, maxPages, priorityPaths, credentials, toVisit,
                 visited, pages, authResult, pendingAuth, cur, browserOpen,
                 authAttempts, navigated, initialQueue, stillOnLogin,
                 failedUrls>>

\* lines 496-499: return { pages, authResult }; finally browser.close()
CrawlReturn ==
  /\ UNCHANGED <<execVars, runVars, selVars, locVars, cfgVars, waitVars>>
  /\ cpc = "loop"
  /\ ~LoopCondition
  /\ browserOpen' = FALSE
  /\ cpc' = "done"
  /\ UNCHANGED <<baseUrl, maxPages, priorityPaths, credentials, toVisit,
                 visited, pages, authResult, pendingAuth, cur, openTabs,
                 authAttempts, navigated, initialQueue, stillOnLogin,
                 failedUrls>>

CrawlNext ==
  \/ CrawlLaunch
  \/ CrawlAuthOpen
  \/ CrawlAuthLogin
  \/ CrawlAuthClose
  \/ CrawlSeed
  \/ CrawlDequeue
  \/ CrawlOpenTab
  \/ CrawlFetch
  \/ CrawlCloseTab
  \/ CrawlReturn

(***************************************************************************)
(* Flow executor (executor/playwright.ts)                                  *)
(***************************************************************************)
Undef == "undefined"

Step(a, sel, val, d) ==
  [action |-> a, selector |-> sel, value |-> val, description |-> d]

Flow(id, prio, steps) ==
  [id |-> id, name |-> id, priority |-> prio, steps |-> steps]

\* flows the planner can return
FlowLogin == Flow("login", 2, <<Step("navigate", Undef, "/x", "open"),
                                Step("fill", "A", "v", "type"),
                                Step("click", "B", Undef, "submit")>>)
FlowShots == Flow("shots", 1, <<Step("screenshot", Undef, Undef, "shot"),
                                Step("wait", Undef, "500", "pause")>>)
FlowBad   == Flow("bad", 2, <<Step("assert", "A", Undef, "see"),
                              Step("hover", "B", Undef, "hover"),
                              Step("navigate", Undef, "/x", "open")>>)
FlowPool  == {FlowLogin, FlowShots, FlowBad}

\* a plan: flows with pairwise different ids
FlowSeqs ==
  {s \in SeqsUpTo(FlowPool, MaxFlows) :
     \A i, j \in 1..Len(s) : i # j => s[i].id # s[j].id}

ViewportNames == {"desktop", "mobile"}

NoAccount == [present |-> FALSE, auth_type |-> "", success_indicator |-> ""]
TestAccounts ==
  {NoAccount} \cup
  {[present |-> TRUE, auth_type |-> "form", success_indicator |-> "/a"],
   [present |-> TRUE, auth_type |-> "basic", success_indicator |-> ""]}

\* [...flows].sort((a, b) => b.priority - a.priority): a stable insertion
\* of each flow behind the flows of greater or equal priority
RECURSIVE InsertByPriority(_, _)
InsertByPriority(sorted, f) ==
  IF sorted = <<>> THEN <<f>>
  ELSE IF Head(sorted).priority >= f.priority
         THEN <<Head(sorted)>> \o InsertByPriority(Tail(sorted), f)
         ELSE <<f>> \o sorted

\* the flows run in the order the planner gave them
SortKeepOrder(fs) == fs

RECURSIVE SortByPriority(_)
SortByPriority(fs) ==
  IF fs = <<>> THEN <<>>
  ELSE InsertByPriority(SortByPriority(SubSeq(fs, 1, Len(fs) - 1)),
                        fs[Len(fs)])

\* executeStep, lines 208-244: the step throws before touching the browser
StepAlwaysThrows(st) ==
  CASE st.action = "navigate" -> st.value \in {Undef, ""}
    [] st.action = "click"    -> st.selector \in {Undef, ""}
    [] st.action = "fill"     -> st.selector \in {Undef, ""} \/ st.value = Undef
    [] st.action = "assert"   -> st.selector \in {Undef, ""}
    [] st.action = "wait"     -> FALSE
    [] st.action = "screenshot" -> FALSE
    [] OTHER                  -> TRUE

\* the step drives the browser and can fail there (timeout, no element)
StepCanFail(st) == st.action \in {"navigate", "click", "fill", "assert"}

\* whether executeStep(page, step) can return normally / can throw
StepOutcomes(st) ==
  IF StepAlwaysThrows(st) THEN {"failed"}
  ELSE IF StepCanFail(st) THEN {"passed", "failed"}
  ELSE {"passed"}

\* lines 157-161: the StepResult of a step that returned
PassedStepResult(st) ==
  [description |-> st.description, status |-> "passed", error |-> ""]

\* a failed StepResult that drops the error message
FailedStepResultNoError(st) ==
  [description |-> st.description, status |-> "failed", error |-> ""]

\* lines 164-170: the StepResult of a step that threw
FailedStepResult(st) ==
  [description |-> st.description, status |-> "failed", error |-> "errorMsg"]

\* a 'screenshot' step that captures the page itself
StepShotsCaptured(st, flow, viewport, i) ==
  IF st.action = "screenshot" THEN <<<<flow.id, viewport, "step", i>>>>
  ELSE <<>>

\* lines 156, 238-240: screenshot paths a step that returned adds; the
\* 'screenshot' case of executeStep only breaks
StepShots(st, flow, viewport, i) == <<>>

\* the failure screenshot numbered from 1
FailureShotOneBased(flow, viewport, i) == <<flow.id, viewport, "failure", i + 1>>

\* lines 176, 186: screenshot file names
FailureShot(flow, viewport, i) == <<flow.id, viewport, "failure", i>>
FinalShot(flow, viewport)      == <<flow.id, viewport, "final", 0>>

\* the payload of the executor before viewports existed: no viewport tag
PayloadNoViewport(flow, viewport, status, err, steps, shots) ==
  [flow_name |-> flow.name, status |-> status, error_message |-> err,
   steps |-> steps, screenshot_urls |-> shots, viewport |-> "desktop"]

\* lines 194-202
Payload(flow, viewport, status, err, steps, shots) ==
  [flow_name |-> flow.name, status |-> status, error_message |-> err,
   steps |-> steps, screenshot_urls |-> shots, viewport |-> viewport]

\* lines 85-97: the login attempt of the executor ends without an exception
ExecLoginOk(acct, out) ==
  /\ ~out.exc
  /\ acct.success_indicator # "" =>
       IF acct.success_indicator = "/a"
         THEN MatchesPattern(out.url, acct.success_indicator)
         ELSE out.visible

\* the clock is followed up to one tick past the largest budget
ClockCap == MaxDuration + 1
Tick(t) == IF t + MaxTick > ClockCap THEN ClockCap ELSE t + MaxTick
Ticks(t) == {t, Tick(t)}

\* a budget that is never checked
OverBudgetNever == FALSE

\* lines 360-361 and 371-372: elapsed > maxDurationMs
OverBudget == now > maxDurationMs

CurFlow == sortedFlows[fi]
CurViewport == viewports[vi]

ExecIdle ==
  /\ epc = "idle"
  /\ flows = <<>>
  /\ viewports = <<>>
  /\ maxDurationMs = 0
  /\ testAccount = NoAccount
  /\ now = 0
  /\ sortedFlows = <<>>
  /\ vi = 0
  /\ fi = 0
  /\ results = <<>>
  /\ stepResults = <<>>
  /\ screenshotUrls = <<>>
  /\ flowStatus = "passed"
  /\ errorMessage = ""
  /\ si = 0
  /\ throwing = ""
  /\ execStillOnLogin = FALSE
  /\ storageState = FALSE
  /\ execBrowser = FALSE
  /\ openContexts = 0
  /\ execAuthAttempts = 0
  /\ contextLog = <<>>

ExecInit ==
  /\ epc = "start"
  /\ flows \in FlowSeqs
  /\ viewports \in SeqsUpTo(ViewportNames, MaxViewports)
  /\ maxDurationMs \in 0..MaxDuration
  /\ testAccount \in TestAccounts
  /\ now = 0
  /\ sortedFlows = <<>>
  /\ vi = 0
  /\ fi = 0
  /\ results = <<>>
  /\ stepResults = <<>>
  /\ screenshotUrls = <<>>
  /\ flowStatus = "passed"
  /\ errorMessage = ""
  /\ si = 0
  /\ throwing = ""
  /\ execStillOnLogin = FALSE
  /\ storageState = FALSE
  /\ execBrowser = FALSE
  /\ openContexts = 0
  /\ execAuthAttempts = 0
  /\ contextLog = <<>>

\* lines 341-351, 32-42: initialize() launches the browser; without a test
\* account the flows are sorted and the viewport loop begins
ExecLaunch ==
  /\ UNCHANGED <<crawlVars, runVars, selVars, locVars, cfgVars, waitVars>>
  /\ epc = "start"
  /\ \/ /\ execBrowser' = TRUE
        /\ IF testAccount.present
             THEN /\ epc' = "auth"
                  /\ UNCHANGED <<sortedFlows, vi>>
             ELSE /\ epc' = "viewport"
                  /\ sortedFlows' = SortByPriority(flows)
                  /\ vi' = 1
        /\ now' \in Ticks(now)   \* startTime is taken ahead of the launch
        /\ UNCHANGED throwing
     \/ /\ epc' = "thrown"       \* chromium.launch throws
        /\ throwing' = "launch"
        /\ UNCHANGED <<execBrowser, sortedFlows, vi, now>>
  /\ UNCHANGED <<flows, viewports, maxDurationMs, testAccount, fi,
                 results, stepResults, screenshotUrls, flowStatus,
                 errorMessage, si, execStillOnLogin, storageState,
                 openContexts, execAuthAttempts, contextLog>>

\* lines 40, 48-57: authenticate() opens a context and a page outside its try
ExecAuthOpen ==
  /\ UNCHANGED <<crawlVars, runVars, selVars, locVars, cfgVars, waitVars>>
  /\ epc = "auth"
  /\ execAuthAttempts' = execAuthAttempts + 1
  /\ openContexts' = openContexts + 1
  /\ epc' = "authLogin"
  /\ UNCHANGED execBrowser
  /\ UNCHANGED <<flows, viewports, maxDurationMs, testAccount, now,
                 sortedFlows, vi, fi, results, stepResults, screenshotUrls,
                 flowStatus, errorMessage, si, throwing, execStillOnLogin,
                 storageState, contextLog>>

\* lines 59-104: the login; storageState is set when no exception occurred
ExecAuthLogin ==
  /\ UNCHANGED <<crawlVars, runVars, selVars, locVars, cfgVars, waitVars>>
  /\ epc = "authLogin"
  /\ \E out \in AuthOutcomes :
       /\ storageState' = ExecLoginOk(testAccount, out)
       /\ execStillOnLogin' = ContainsLogin(out.url)
  /\ now' \in Ticks(now)
  /\ epc' = "authClose"
  /\ UNCHANGED <<flows, viewports, maxDurationMs, testAccount, sortedFlows,
                 vi, fi, results, stepResults, screenshotUrls, flowStatus,
                 errorMessage, si, throwing, execBrowser, openContexts,
                 execAuthAttempts, contextLog>>

\* a failed login attempted again
ExecAuthCloseRetry ==
  /\ UNCHANGED <<crawlVars, runVars, selVars, locVars, cfgVars, waitVars>>
  /\ epc = "authClose"
  /\ openContexts' = openContexts - 1
  /\ sortedFlows' = SortByPriority(flows)
  /\ vi' = 1
  /\ epc' = IF storageState THEN "viewport" ELSE "auth"
  /\ UNCHANGED <<flows, viewports, maxDurationMs, testAccount, now, fi,
                 results, stepResults, screenshotUrls, flowStatus,
                 errorMessage, si, throwing, execStillOnLogin, storageState,
                 execBrowser, execAuthAttempts, contextLog>>

\* lines 105-107, 350-351: finally context.close(); initialize() returns and
\* the flows are sorted
ExecAuthClose ==
  /\ UNCHANGED <<crawlVars, runVars, selVars, locVars, cfgVars, waitVars>>
  /\ epc = "authClose"
  /\ openContexts' = openContexts - 1
  /\ sortedFlows' = SortByPriority(flows)
  /\ vi' = 1
  /\ epc' = "viewport"
  /\ UNCHANGED <<flows, viewports, maxDurationMs, testAccount, now, fi,
                 results, stepResults, screenshotUrls, flowStatus,
                 errorMessage, si, throwing, execStillOnLogin, storageState,
                 execBrowser, execAuthAttempts, contextLog>>

\* lines 354-356: next viewport of the for-of loop
ExecViewport ==
  /\ UNCHANGED <<crawlVars, runVars, selVars, locVars, cfgVars, waitVars>>
  /\ epc = "viewport"
  /\ IF vi <= Len(viewports)
       THEN /\ fi' = 1
            /\ epc' = "flow"
       ELSE /\ epc' = "return"
            /\ UNCHANGED fi
  /\ UNCHANGED <<flows, viewports, maxDurationMs, testAccount, now,
                 sortedFlows, vi, results, stepResults, screenshotUrls,
                 flowStatus, errorMessage, si, throwing, execStillOnLogin,
                 storageState, execBrowser, openContexts, execAuthAttempts,
                 contextLog>>

\* lines 358-364: the inner loop ends, or the budget check breaks out of it
ExecSkip ==
  /\ UNCHANGED <<crawlVars, runVars, selVars, locVars, cfgVars, waitVars>>
  /\ epc = "flow"
  /\ fi > Len(sortedFlows) \/ OverBudget
  /\ epc' = "viewportEnd"
  /\ UNCHANGED <<flows, viewports, maxDurationMs, testAccount, now,
                 sortedFlows, vi, fi, results, stepResults, screenshotUrls,
                 flowStatus, errorMessage, si, throwing, execStillOnLogin,
                 storageState, execBrowser, openContexts, execAuthAttempts,
                 contextLog>>

\* a context created without the stored login state
ContextOptionsAnonymous(vp) == [viewport |-> vp, storageState |-> FALSE]

\* lines 132-135: the options of the context of a flow
ContextOptions(vp) == [viewport |-> vp, storageState |-> storageState]


\* lines 366, 117-148: executeFlow is called and opens its own context
ExecFlowOpen ==
  /\ UNCHANGED <<crawlVars, runVars, selVars, locVars, cfgVars, waitVars>>
  /\ epc = "flow"
  /\ fi <= Len(sortedFlows)
  /\ ~OverBudget
  /\ openContexts' = openContexts + 1
  /\ contextLog' = Append(contextLog,
       [flow |-> CurFlow.id, viewport |-> CurViewport,
        seeded |-> ContextOptions(CurViewport).storageState])
  /\ stepResults' = <<>>
  /\ screenshotUrls' = <<>>
  /\ flowStatus' = "passed"
  /\ errorMessage' = ""
  /\ si' = 1
  /\ epc' = "step"
  /\ UNCHANGED <<flows, viewports, maxDurationMs, testAccount, now,
                 sortedFlows, vi, fi, results, throwing, execStillOnLogin,
                 storageState, execBrowser, execAuthAttempts>>

\* a step loop without the catch: the step's exception leaves executeFlow
ExecStepRethrow ==
  /\ UNCHANGED <<crawlVars, runVars, selVars, locVars, cfgVars, waitVars>>
  /\ epc = "step"
  /\ si <= Len(CurFlow.steps)
  /\ LET st == CurFlow.steps[si]
     IN  \E o \in StepOutcomes(st) :
           IF o = "passed"
             THEN /\ stepResults' = Append(stepResults, PassedStepResult(st))
                  /\ si' = si + 1
                  /\ epc' = "step"
                  /\ screenshotUrls' = screenshotUrls \o
                       StepShots(st, CurFlow, CurViewport, si - 1)
                  /\ UNCHANGED <<flowStatus, errorMessage, throwing>>
             ELSE /\ stepResults' = Append(stepResults, FailedStepResult(st))
                  /\ flowStatus' = "failed"
                  /\ errorMessage' = st.description
                  /\ epc' = "flowClose"
                  /\ throwing' = "errorMsg"
                  /\ UNCHANGED <<si, screenshotUrls>>
  /\ now' \in Ticks(now)
  /\ UNCHANGED <<flows, viewports, maxDurationMs, testAccount, sortedFlows,
                 vi, fi, results, execStillOnLogin,
                 storageState, execBrowser, openContexts, execAuthAttempts,
                 contextLog>>

\* lines 151-174: one iteration of the step loop up to the failure screenshot
ExecStep ==
  /\ UNCHANGED <<crawlVars, runVars, selVars, locVars, cfgVars, waitVars>>
  /\ epc = "step"
  /\ si <= Len(CurFlow.steps)
  /\ LET st == CurFlow.steps[si]
     IN  \E o \in StepOutcomes(st) :
           IF o = "passed"
             THEN /\ stepResults' = Append(stepResults, PassedStepResult(st))
                  /\ si' = si + 1
                  /\ epc' = "step"
                  /\ screenshotUrls' = screenshotUrls \o
                       StepShots(st, CurFlow, CurViewport, si - 1)
                  /\ UNCHANGED <<flowStatus, errorMessage>>
             ELSE /\ stepResults' = Append(stepResults, FailedStepResult(st))
                  /\ flowStatus' = "failed"
                  /\ errorMessage' = st.description
                  /\ epc' = "failShot"
                  /\ UNCHANGED <<si, screenshotUrls>>
  /\ now' \in Ticks(now)
  /\ UNCHANGED <<flows, viewports, maxDurationMs, testAccount, sortedFlows,
                 vi, fi, results, throwing, execStillOnLogin,
                 storageState, execBrowser, openContexts, execAuthAttempts,
                 contextLog>>

\* lines 175-180: the failure screenshot, then break
ExecFailureScreenshot ==
  /\ UNCHANGED <<crawlVars, runVars, selVars, locVars, cfgVars, waitVars>>
  /\ epc = "failShot"
  /\ \/ /\ screenshotUrls' =
             Append(screenshotUrls, FailureShot(CurFlow, CurViewport, si - 1))
        /\ UNCHANGED throwing
     \/ /\ throwing' = "screenshot"   \* page.screenshot throws
        /\ UNCHANGED screenshotUrls
  /\ epc' = "flowClose"
  /\ UNCHANGED <<flows, viewports, maxDurationMs, testAccount, now,
                 sortedFlows, vi, fi, results, stepResults, flowStatus,
                 errorMessage, si, execStillOnLogin, storageState,
                 execBrowser, openContexts, execAuthAttempts, contextLog>>

\* lines 184-189: all steps ran; the final screenshot of a passed flow
ExecFinalScreenshot ==
  /\ UNCHANGED <<crawlVars, runVars, selVars, locVars, cfgVars, waitVars>>
  /\ epc = "step"
  /\ si > Len(CurFlow.steps)
  /\ \/ /\ screenshotUrls' =
             Append(screenshotUrls, FinalShot(CurFlow, CurViewport))
        /\ UNCHANGED throwing
     \/ /\ throwing' = "screenshot"   \* page.screenshot throws
        /\ UNCHANGED screenshotUrls
  /\ epc' = "flowClose"
  /\ UNCHANGED <<flows, viewports, maxDurationMs, testAccount, now,
                 sortedFlows, vi, fi, results, stepResults, flowStatus,
                 errorMessage, si, execStillOnLogin, storageState,
                 execBrowser, openContexts, execAuthAttempts, contextLog>>

\* a preemptive budget: the payload of a flow that ended late is dropped
ExecFlowCloseDropLate ==
  /\ UNCHANGED <<crawlVars, runVars, selVars, locVars, cfgVars, waitVars>>
  /\ epc = "flowClose"
  /\ openContexts' = openContexts - 1
  /\ IF throwing # ""
       THEN /\ execBrowser' = FALSE
            /\ epc' = "thrown"
            /\ UNCHANGED <<results, fi>>
       ELSE /\ results' = IF OverBudget THEN results
                          ELSE Append(results,
                                 Payload(CurFlow, CurViewport, flowStatus,
                                         errorMessage, stepResults,
                                         screenshotUrls))
            /\ fi' = fi + 1
            /\ epc' = "flow"
            /\ UNCHANGED execBrowser
  /\ UNCHANGED <<flows, viewports, maxDurationMs, testAccount, now,
                 sortedFlows, vi, stepResults, screenshotUrls, flowStatus,
                 errorMessage, si, throwing, execStillOnLogin, storageState,
                 execAuthAttempts, contextLog>>

\* lines 190-203, 366-367: finally context.close(); the payload is returned
\* and pushed, or the exception goes on through executeFlows' finally
ExecFlowClose ==
  /\ UNCHANGED <<crawlVars, runVars, selVars, locVars, cfgVars, waitVars>>
  /\ epc = "flowClose"
  /\ openContexts' = openContexts - 1
  /\ IF throwing # ""
       THEN /\ execBrowser' = FALSE
            /\ epc' = "thrown"
            /\ UNCHANGED <<results, fi>>
       ELSE /\ results' = Append(results,
                 Payload(CurFlow, CurViewport, flowStatus, errorMessage,
                         stepResults, screenshotUrls))
            /\ fi' = fi + 1
            /\ epc' = "flow"
            /\ UNCHANGED execBrowser
  /\ UNCHANGED <<flows, viewports, maxDurationMs, testAccount, now,
                 sortedFlows, vi, stepResults, screenshotUrls, flowStatus,
                 errorMessage, si, throwing, execStillOnLogin, storageState,
                 execAuthAttempts, contextLog>>

\* lines 370-375: the budget check after each viewport
ExecViewportEnd ==
  /\ UNCHANGED <<crawlVars, runVars, selVars, locVars, cfgVars, waitVars>>
  /\ epc = "viewportEnd"
  /\ IF OverBudget
       THEN /\ epc' = "return"
            /\ UNCHANGED vi
       ELSE /\ vi' = vi + 1
            /\ epc' = "viewport"
  /\ UNCHANGED <<flows, viewports, maxDurationMs, testAccount, now,
                 sortedFlows, fi, results, stepResults, screenshotUrls,
                 flowStatus, errorMessage, si, throwing, execStillOnLogin,
                 storageState, execBrowser, openContexts, execAuthAttempts,
                 contextLog>>

\* lines 376-380: finally cleanup(); return results
ExecReturn ==
  /\ UNCHANGED <<crawlVars, runVars, selVars, locVars, cfgVars, waitVars>>
  /\ epc = "return"
  /\ execBrowser' = FALSE
  /\ epc' = "done"
  /\ UNCHANGED <<flows, viewports, maxDurationMs, testAccount, now,
                 sortedFlows, vi, fi, results, stepResults, screenshotUrls,
                 flowStatus, errorMessage, si, throwing, execStillOnLogin,
                 storageState, openContexts, execAuthAttempts, contextLog>>

ExecNext ==
  \/ ExecLaunch
  \/ ExecAuthOpen
  \/ ExecAuthLogin
  \/ ExecAuthClose
  \/ ExecViewport
  \/ ExecSkip
  \/ ExecFlowOpen
  \/ ExecStep
  \/ ExecFailureScreenshot
  \/ ExecFinalScreenshot
  \/ ExecFlowClose
  \/ ExecViewportEnd
  \/ ExecReturn

CrawlIdle ==
  /\ cpc = "idle"
  /\ baseUrl = Url("app", "")
  /\ maxPages = 0
  /\ priorityPaths = <<>>
  /\ credentials = NoCreds
  /\ toVisit = <<>>
  /\ visited = {}
  /\ pages = <<>>
  /\ authResult = NoAuth
  /\ pendingAuth = NoAuth
  /\ cur = NoUrl
  /\ browserOpen = FALSE
  /\ openTabs = 0
  /\ authAttempts = 0
  /\ navigated = <<>>
  /\ initialQueue = <<>>
  /\ stillOnLogin = FALSE
  /\ failedUrls = {}


(***************************************************************************)
(* run (index.ts): from the test account to the end of an E2E run          *)
(***************************************************************************)
\* lines 706, 797: budgets by mode.  Executor time is counted in units in
\* which the fast budget (55 s) is 1; the deep budget (9 min) is larger.
RunMaxPages(m)    == IF m = "fast" THEN 3 ELSE 5
RunMaxDuration(m) == IF m = "fast" THEN 1 ELSE 2

\* lines 716-731: credentials for the crawler, only for auth_type 'form'
CrawlCredentialsOf(acc) ==
  IF acc.present /\ acc.auth_type = "form"
    THEN [present |-> TRUE, successIndicator |-> acc.success_indicator]
    ELSE NoCreds

\* test plans generatePlan returns in a run: a flow that passes and a flow
\* that fails
PlanSeqs == {s \in FlowSeqs : Range(s) \subseteq {FlowShots, FlowBad}}

\* reporter/github.ts, calculateSummary
Summary(rs) ==
  [passed  |-> Cardinality({k \in 1..Len(rs) : rs[k].status = "passed"}),
   failed  |-> Cardinality({k \in 1..Len(rs) : rs[k].status = "failed"}),
   skipped |-> Cardinality({k \in 1..Len(rs) : rs[k].status = "skipped"})]

\* a run counted as passed only when some flow passed
OverallStatusNeedsPass(rs) ==
  IF Summary(rs).failed > 0 \/ Summary(rs).passed = 0
    THEN "failed" ELSE "passed"

\* line 804
OverallStatus(rs) == IF Summary(rs).failed > 0 THEN "failed" ELSE "passed"

RunIdle ==
  /\ rpc = "idle"
  /\ mode = "fast"
  /\ account = NoAccount
  /\ testPlan = <<>>
  /\ apiCalls = <<>>
  /\ overallStatus = ""

\* run has its base URL, the changed files and the test account
RunInit ==
  /\ rpc = "account"
  /\ mode \in {"fast", "deep"}
  /\ account \in TestAccounts
  /\ testPlan = <<>>
  /\ apiCalls = <<>>
  /\ overallStatus = ""
  /\ cpc = "idle"
  /\ baseUrl = Url("app", "")
  /\ maxPages = 0
  /\ priorityPaths \in SeqsUpTo({RootRel("/a")}, 1)
  /\ credentials = NoCreds
  /\ toVisit = <<>>
  /\ visited = {}
  /\ pages = <<>>
  /\ authResult = NoAuth
  /\ pendingAuth = NoAuth
  /\ cur = NoUrl
  /\ browserOpen = FALSE
  /\ openTabs = 0
  /\ authAttempts = 0
  /\ navigated = <<>>
  /\ initialQueue = <<>>
  /\ stillOnLogin = FALSE
  /\ failedUrls = {}
  /\ ExecIdle

\* lines 706-735: build the crawl credentials and call crawlSite
RunCrawlCall ==
  /\ rpc = "account"
  /\ cpc = "idle"
  /\ maxPages' = RunMaxPages(mode)
  /\ credentials' = CrawlCredentialsOf(account)
  /\ cpc' = "start"
  /\ rpc' = "crawl"
  /\ UNCHANGED <<baseUrl, priorityPaths, toVisit, visited, pages, authResult,
                 pendingAuth, cur, browserOpen, openTabs, authAttempts,
                 navigated, initialQueue, stillOnLogin,
                 failedUrls>>
  /\ UNCHANGED <<mode, account, testPlan, apiCalls, overallStatus>>
  /\ UNCHANGED <<execVars, selVars, locVars, cfgVars, waitVars>>

\* lines 736-785: crawlSite returned or threw (caught, line 759); the plan
\* is requested; an empty plan ends the run as passed
RunPlan ==
  /\ rpc = "crawl"
  /\ cpc \in {"done", "thrown"}
  /\ cpc' = "idle"
  /\ toVisit' = <<>>
  /\ visited' = {}
  /\ pages' = <<>>
  /\ authResult' = NoAuth
  /\ pendingAuth' = NoAuth
  /\ cur' = NoUrl
  /\ navigated' = <<>>
  /\ initialQueue' = <<>>
  /\ stillOnLogin' = FALSE
  /\ failedUrls' = {}
  /\ \/ \E fs \in PlanSeqs :
          /\ testPlan' = fs
          /\ IF fs = <<>>
               THEN /\ overallStatus' = "passed"
                    /\ rpc' = "end"
               ELSE /\ rpc' = "startRun"
                    /\ UNCHANGED overallStatus
     \/ /\ rpc' = "failed"       \* generatePlan throws; catch at line 857
        /\ UNCHANGED <<testPlan, overallStatus>>
  /\ UNCHANGED <<baseUrl, maxPages, priorityPaths, credentials, browserOpen,
                 openTabs, authAttempts>>
  /\ UNCHANGED <<mode, account, apiCalls>>
  /\ UNCHANGED <<execVars, selVars, locVars, cfgVars, waitVars>>

\* line 788
RunStartRun ==
  /\ rpc = "startRun"
  /\ apiCalls' = Append(apiCalls, "startRun")
  /\ \/ rpc' = "executeCall"
     \/ rpc' = "failed"       \* the request throws; catch at line 857
  /\ UNCHANGED <<mode, account, testPlan, overallStatus>>
  /\ UNCHANGED <<crawlVars, execVars, selVars, locVars, cfgVars, waitVars>>

\* lines 796-800: executeFlows(testPlan.flows, baseUrl, maxDuration,
\* testAccount, viewports)
RunExecuteCall ==
  /\ rpc = "executeCall"
  /\ epc = "idle"
  /\ flows' = testPlan
  /\ maxDurationMs' = RunMaxDuration(mode)
  /\ testAccount' = account
  /\ viewports' \in SeqsUpTo(ViewportNames, MaxViewports)
  /\ epc' = "start"
  /\ apiCalls' = Append(apiCalls, "executeFlows")
  /\ rpc' = "execute"
  /\ UNCHANGED <<now, sortedFlows, vi, fi, results, stepResults,
                 screenshotUrls, flowStatus, errorMessage, si, throwing,
                 execStillOnLogin, storageState, execBrowser, openContexts,
                 execAuthAttempts, contextLog>>
  /\ UNCHANGED <<mode, account, testPlan, overallStatus>>
  /\ UNCHANGED <<crawlVars, selVars, locVars, cfgVars, waitVars>>

\* lines 800-813: executeFlows returned: summary, status, upload of results
RunUpload ==
  /\ rpc = "execute"
  /\ epc = "done"
  /\ overallStatus' = OverallStatus(results)
  /\ apiCalls' = Append(apiCalls, "uploadResults")
  /\ \/ rpc' = "complete"
     \/ rpc' = "failed"       \* the request throws; catch at line 857
  /\ UNCHANGED <<mode, account, testPlan>>
  /\ UNCHANGED <<crawlVars, execVars, selVars, locVars, cfgVars, waitVars>>

\* the exception of executeFlows swallowed: the run goes on to completeRun
RunExecuteThrewCompletes ==
  /\ rpc = "execute"
  /\ epc = "thrown"
  /\ rpc' = "complete"
  /\ UNCHANGED <<mode, account, testPlan, apiCalls, overallStatus>>
  /\ UNCHANGED <<crawlVars, execVars, selVars, locVars, cfgVars, waitVars>>

\* lines 800, 857-860: executeFlows threw; the catch of run sets the failure
RunExecuteThrew ==
  /\ rpc = "execute"
  /\ epc = "thrown"
  /\ rpc' = "failed"
  /\ UNCHANGED <<mode, account, testPlan, apiCalls, overallStatus>>
  /\ UNCHANGED <<crawlVars, execVars, selVars, locVars, cfgVars, waitVars>>

\* lines 816-855: completeRun, then comment, issues, outputs, final status
RunComplete ==
  /\ rpc = "complete"
  /\ apiCalls' = Append(apiCalls, "completeRun")
  /\ \/ rpc' = "end"
     \/ rpc' = "failed"       \* the request throws; catch at line 857
  /\ UNCHANGED <<mode, account, testPlan, overallStatus>>
  /\ UNCHANGED <<crawlVars, execVars, selVars, locVars, cfgVars, waitVars>>

RunNext ==
  \/ RunCrawlCall
  \/ RunPlan
  \/ RunStartRun
  \/ RunExecuteCall
  \/ RunUpload
  \/ RunExecuteThrew
  \/ RunComplete


(***************************************************************************)
(* Selector synthesis (crawler/index.ts, crawlPageWithContext)             *)
(* A selector is a tuple: the form of the selector, then its parts.        *)
(***************************************************************************)
\* attributes are "" when absent
Element(testid, id, name, ph, label, type, href, text, tag) ==
  [testid |-> testid, id |-> id, name |-> name, placeholder |-> ph,
   label |-> label, type |-> type, href |-> href, text |-> text, tag |-> tag]

\* id.includes(':')
HasColon(id) == id = ":r2:"

\* href.startsWith('javascript:')
IsJavascript(href) == href = "javascript:void(0)"

\* text.substring(0, 30); "long" stands for a text of more than 30 characters
Truncate30(text) == IF text = "long" THEN "long[0,30)" ELSE text

NoSelector == <<>>

\* the id consulted before the test id
LinkSelectorIdFirst(a, i) ==
  IF a.id # "" THEN <<"#", a.id>>
  ELSE IF a.testid # "" THEN <<"[data-testid=]", a.testid>>
  ELSE IF a.href # "" /\ ~IsJavascript(a.href) THEN <<"a[href=]", a.href>>
  ELSE IF a.text # "" THEN <<"a:has-text()", Truncate30(a.text)>>
  ELSE <<"a >> nth=", i>>

\* lines 208-225
LinkSelector(a, i) ==
  IF a.testid # "" THEN <<"[data-testid=]", a.testid>>
  ELSE IF a.id # "" THEN <<"#", a.id>>
  ELSE IF a.href # "" /\ ~IsJavascript(a.href) THEN <<"a[href=]", a.href>>
  ELSE IF a.text # "" THEN <<"a:has-text()", Truncate30(a.text)>>
  ELSE <<"a >> nth=", i>>

\* lines 235-244
FormSelector(form, i) ==
  IF form.testid # "" THEN <<"[data-testid=]", form.testid>>
  ELSE IF form.id # "" THEN <<"#", form.id>>
  ELSE IF form.name # "" THEN <<"form[name=]", form.name>>
  ELSE <<"form >> nth=", i>>

\* lines 248, 342: the type attribute or its default
FormInputType(input) ==
  IF input.type # "" THEN input.type
  ELSE IF input.tag = "textarea" THEN "textarea" ELSE "text"
StandaloneInputType(input) == IF input.type # "" THEN input.type ELSE "text"

\* lines 264-290
FormInputSelector(input, formSelector, j) ==
  LET type == FormInputType(input)
      first ==
        IF input.testid # "" THEN <<"[data-testid=]", input.testid>>
        ELSE IF input.name # "" THEN <<"[name=]", input.name>>
        ELSE IF input.placeholder # ""
          THEN <<"[placeholder=]", input.placeholder>>
        ELSE IF input.label # ""
          THEN <<"text= >> .. >> input", Truncate30(input.label)>>
        ELSE IF type = "email" THEN <<"input[type=]", "email">>
        ELSE IF type = "password" THEN <<"input[type=]", "password">>
        ELSE IF input.id # "" /\ ~HasColon(input.id) THEN <<"#", input.id>>
        ELSE IF type # "" /\ type # "hidden"
          THEN <<"form input[type=]", formSelector, type>>
        ELSE NoSelector
  IN  IF first = NoSelector /\ type # "hidden"
        THEN <<"form input >> nth=", formSelector, j>>
        ELSE first

\* lines 305-323
ButtonText(btn) == btn.text
ButtonType(btn) == IF btn.type # "" THEN btn.type ELSE "button"
ButtonSelector(btn, i) ==
  IF btn.testid # "" THEN <<"[data-testid=]", btn.testid>>
  ELSE IF btn.id # "" THEN <<"#", btn.id>>
  ELSE IF ButtonText(btn) # "" /\ btn.tag = "button"
    THEN <<"button[type=]:has-text()", ButtonType(btn),
           Truncate30(ButtonText(btn))>>
  ELSE IF ButtonText(btn) # ""
    THEN <<"button:has-text()", Truncate30(ButtonText(btn))>>
  ELSE <<"button >> nth=", i>>

\* lines 346-361
StandaloneInputSelector(input) ==
  LET type == StandaloneInputType(input) IN
  IF input.testid # "" THEN <<"[data-testid=]", input.testid>>
  ELSE IF input.name # "" THEN <<"[name=]", input.name>>
  ELSE IF input.placeholder # "" THEN <<"[placeholder=]", input.placeholder>>
  ELSE IF type = "email" THEN <<"input[type=]", "email">>
  ELSE IF type = "password" THEN <<"input[type=]", "password">>
  ELSE IF input.id # "" /\ ~HasColon(input.id) THEN <<"#", input.id>>
  ELSE NoSelector

\* the elements of each kind a page can hold
TestIds == {"", "tid"}
Ids     == {"", "main", ":r2:"}
Texts   == {"", "Go", "long"}
LinkElements ==
  {Element(t, i, "", "", "", "", h, x, "a") :
     t \in TestIds, i \in Ids, h \in {"", "/x", "javascript:void(0)"},
     x \in Texts}
FormElements ==
  {Element(t, i, n, "", "", "", "", "", "form") :
     t \in TestIds, i \in Ids, n \in {"", "signup"}}
InputElements ==
  {Element(t, i, n, p, l, ty, "", "", tg) :
     t \in TestIds, i \in Ids, n \in {"", "email"}, p \in {"", "Your email"},
     l \in {"", "Email"}, ty \in {"", "email", "password", "hidden", "number"},
     tg \in {"input", "textarea"}}
ButtonElements ==
  {Element(t, i, "", "", "", ty, "", x, tg) :
     t \in TestIds, i \in Ids, ty \in {"", "submit"}, x \in Texts,
     tg \in {"button", "input", "div"}}

ElementKinds == {"link", "form", "formInput", "button", "input"}
ElementsOf(kind) ==
  CASE kind = "link"      -> LinkElements
    [] kind = "form"      -> FormElements
    [] kind = "formInput" -> InputElements
    [] kind = "button"    -> ButtonElements
    [] kind = "input"     -> InputElements

SelIdle ==
  /\ spc = "idle"
  /\ elem = Element("", "", "", "", "", "", "", "", "")
  /\ elemKind = ""
  /\ elemIndex = 0
  /\ container = NoSelector
  /\ selector = NoSelector
  /\ collected = FALSE

\* an element of the page, before page.evaluate extracts it
SelInit ==
  /\ spc = "dom"
  /\ elemKind \in ElementKinds
  /\ elem \in ElementsOf(elemKind)
  /\ elemIndex \in 0..1
  /\ container \in IF elemKind = "formInput"
                     THEN {FormSelector(f, 0) : f \in FormElements}
                     ELSE {NoSelector}
  /\ selector = NoSelector
  /\ collected = FALSE

\* lines 206-227
ExtractLink ==
  /\ spc = "dom"
  /\ elemKind = "link"
  /\ selector' = LinkSelector(elem, elemIndex)
  /\ collected' = TRUE
  /\ spc' = "done"
  /\ UNCHANGED <<elem, elemKind, elemIndex, container>>
  /\ UNCHANGED <<crawlVars, execVars, runVars, locVars, cfgVars, waitVars>>

\* lines 230-244
ExtractForm ==
  /\ spc = "dom"
  /\ elemKind = "form"
  /\ selector' = FormSelector(elem, elemIndex)
  /\ collected' = TRUE
  /\ spc' = "done"
  /\ UNCHANGED <<elem, elemKind, elemIndex, container>>
  /\ UNCHANGED <<crawlVars, execVars, runVars, locVars, cfgVars, waitVars>>

\* lines 246-293: an input of a form; hidden inputs are filtered out
ExtractFormInput ==
  /\ spc = "dom"
  /\ elemKind = "formInput"
  /\ selector' = FormInputSelector(elem, container, elemIndex)
  /\ collected' = (FormInputType(elem) # "hidden")
  /\ spc' = "done"
  /\ UNCHANGED <<elem, elemKind, elemIndex, container>>
  /\ UNCHANGED <<crawlVars, execVars, runVars, locVars, cfgVars, waitVars>>

\* lines 300-328: kept when it has a text or a selector
ExtractButton ==
  /\ spc = "dom"
  /\ elemKind = "button"
  /\ selector' = ButtonSelector(elem, elemIndex)
  /\ collected' = (ButtonText(elem) # ""
                   \/ ButtonSelector(elem, elemIndex) # NoSelector)
  /\ spc' = "done"
  /\ UNCHANGED <<elem, elemKind, elemIndex, container>>
  /\ UNCHANGED <<crawlVars, execVars, runVars, locVars, cfgVars, waitVars>>

\* lines 331-366: an input outside every form; kept when it is not hidden
\* and has a selector
ExtractStandaloneInput ==
  /\ spc = "dom"
  /\ elemKind = "input"
  /\ selector' = StandaloneInputSelector(elem)
  /\ collected' = (StandaloneInputType(elem) # "hidden"
                   /\ StandaloneInputSelector(elem) # NoSelector)
  /\ spc' = "done"
  /\ UNCHANGED <<elem, elemKind, elemIndex, container>>
  /\ UNCHANGED <<crawlVars, execVars, runVars, locVars, cfgVars, waitVars>>

SelNext ==
  \/ ExtractLink
  \/ ExtractForm
  \/ ExtractFormInput
  \/ ExtractButton
  \/ ExtractStandaloneInput

(***************************************************************************)
(* Locator resolution (executor/playwright.ts, smartLocator)               *)
(* A string is a sequence of tokens; a locator is the sequence of the      *)
(* leaf locators it chains with .or().                                     *)
(***************************************************************************)
MaxSegments == 2   \* comma-separated segments of a selector

Quotes == {"\"", "'"}

\* selector.startsWith('text=')
StartsWithText(s) == s # <<>> /\ Head(s) = "text="

\* selector.slice(5).replace(/^["']|["']$/g, '')
StripQuotes(t) ==
  LET a == IF t # <<>> /\ Head(t) \in Quotes THEN Tail(t) ELSE t
  IN  IF a # <<>> /\ a[Len(a)] \in Quotes THEN SubSeq(a, 1, Len(a) - 1)
      ELSE a

\* s.trim()
RECURSIVE Trim(_)
Trim(s) ==
  IF s # <<>> /\ Head(s) = " " THEN Trim(Tail(s))
  ELSE IF s # <<>> /\ s[Len(s)] = " " THEN Trim(SubSeq(s, 1, Len(s) - 1))
  ELSE s

\* selector.split(',')
RECURSIVE SplitComma(_)
SplitComma(s) ==
  IF ~Includes(s, ",") THEN <<s>>
  ELSE LET i == CHOOSE k \in 1..Len(s) :
                  s[k] = "," /\ \A j \in 1..(k - 1) : s[j] # ","
       IN  <<SubSeq(s, 1, i - 1)>> \o SplitComma(SubSeq(s, i + 1, Len(s)))

\* page.getByText(t), page.locator(s)
GetByText(t) == [k |-> "text", v |-> t]
Locator(s)   == [k |-> "css", v |-> s]

\* lines 324-331
SingleLocator(s) ==
  IF StartsWithText(Trim(s)) THEN GetByText(StripQuotes(Tail(Trim(s))))
  ELSE Locator(Trim(s))

\* lines 298-322: the text of a :has-text("...") with an emoji ("*") gets a
\* variant with, or without, a space behind the emoji
WithSpace(w)    == IF w = "*R" THEN "* R" ELSE w
WithoutSpace(w) == IF w = "* R" THEN "*R" ELSE w
HasTextAt(s) == {k \in 1..Len(s) : k > 1 /\ s[k - 1] = ":has-text("}
GetSelectorVariants(s) ==
  IF HasTextAt(s) = {} THEN <<s>>
  ELSE LET k == CHOOSE n \in HasTextAt(s) : \A m \in HasTextAt(s) : n <= m
           a == [s EXCEPT ![k] = WithSpace(s[k])]
           b == [s EXCEPT ![k] = WithoutSpace(s[k])]
       IN  <<s>> \o (IF a # s THEN <<a>> ELSE <<>>)
               \o (IF b # s THEN <<b>> ELSE <<>>)

\* lines 254-292
SmartLocator(s) ==
  LET parts == SplitComma(s)
  IN  IF StartsWithText(s) THEN <<GetByText(StripQuotes(Tail(s)))>>
      ELSE IF Includes(s, ",") /\ \E i \in 1..Len(parts) :
                                    StartsWithText(Trim(parts[i]))
        THEN [i \in 1..Len(parts) |-> SingleLocator(parts[i])]
      ELSE [i \in 1..Len(GetSelectorVariants(s)) |->
              Locator(GetSelectorVariants(s)[i])]

\* t occurs in the text content (getByText matches a substring)
ContainsText(content, t) ==
  \E i \in 0..(Len(content) - Len(t)) :
    SubSeq(content, i + 1, i + Len(t)) = t

\* an element of the page: the structural selectors it satisfies and its
\* text content
DomElement(css, content) == [css |-> css, content |-> content]

\* the leaf locator resolves to the element
LeafMatches(leaf, el) ==
  IF leaf.k = "text" THEN ContainsText(el.content, leaf.v)
  ELSE leaf.v \in el.css

\* a chain of .or() resolves to the element when one of its leaves does
Matches(loc, el) == \E i \in 1..Len(loc) : LeafMatches(loc[i], el)

\* selectors the planner writes: segments joined by "," or ", "
Segments ==
  {<<"text=", "\"", "Login", "\"">>, <<"text=", "Home">>, <<"a">>,
   <<"#submit">>, <<"button", ":has-text(", "*R", ")">>}
Separators == {<<",">>, <<",", " ">>}

RECURSIVE SelectorsOf(_)
SelectorsOf(n) ==
  IF n = 1 THEN Segments
  ELSE SelectorsOf(n - 1) \cup
       {s \o sep \o g : s \in SelectorsOf(n - 1), sep \in Separators,
                         g \in Segments}

DomElements ==
  {DomElement({<<"a">>}, <<"Home">>),
   DomElement({<<"a">>}, <<"More">>),
   DomElement({<<"#submit">>, <<"button", ":has-text(", "* R", ")">>},
              <<"*", "R">>),
   DomElement({}, <<"Please", "Login">>),
   DomElement({}, <<"Other">>)}

LocIdle ==
  /\ lpc = "idle"
  /\ locSelector = <<>>
  /\ locElement = DomElement({}, <<>>)
  /\ locator = <<>>
  /\ locMatched = FALSE

\* a step with a selector is about to run against a page
LocInit ==
  /\ lpc = "step"
  /\ locSelector \in SelectorsOf(MaxSegments)
  /\ locElement \in DomElements
  /\ locator = <<>>
  /\ locMatched = FALSE

\* lines 219, 225, 230: this.smartLocator(page, step.selector)
Locate ==
  /\ lpc = "step"
  /\ locator' = SmartLocator(locSelector)
  /\ lpc' = "located"
  /\ UNCHANGED <<locSelector, locElement, locMatched>>
  /\ UNCHANGED <<crawlVars, execVars, runVars, selVars, cfgVars, waitVars>>

\* lines 219, 225, 230: the action on the locator resolves it
Resolved ==
  /\ lpc = "located"
  /\ locMatched' = Matches(locator, locElement)
  /\ lpc' = "acted"
  /\ UNCHANGED <<locSelector, locElement, locator>>
  /\ UNCHANGED <<crawlVars, execVars, runVars, selVars, cfgVars, waitVars>>

LocNext ==
  \/ Locate
  \/ Resolved

(***************************************************************************)
(* run: project and base URL resolution (index.ts, lines 540-626)          *)
(* URLs are plain strings here; "" is an input that was not provided.      *)
(***************************************************************************)
NoProject == [exists |-> FALSE, base_url |-> ""]
Project(url) == [exists |-> TRUE, base_url |-> url]

\* what ScoutAI holds for the repository: nothing, a project without a
\* base URL, a project with one
Projects == {NoProject, Project(""), Project("http://proj")}
BaseUrlInputs == {"", "http://app"}
ProjectIdInputs == {"", "p1"}
Modes == {"fast", "deep", "scout-test"}
PreviewUrls == {"", "http://preview.vercel.app"}

ErrCreate == "base-url is required when creating a new project"
ErrRequired == "base-url is required"

CfgIdle ==
  /\ bpc = "idle"
  /\ inputBaseUrl = ""
  /\ cfgBaseUrl = ""
  /\ projectId = ""
  /\ project = NoProject
  /\ cfgMode = "fast"
  /\ previewUrl = ""
  /\ environment = "staging"
  /\ cfgError = ""

\* lines 540-576: the inputs are read
CfgInit ==
  /\ bpc = "project"
  /\ inputBaseUrl \in BaseUrlInputs
  /\ cfgBaseUrl = inputBaseUrl
  /\ projectId \in ProjectIdInputs
  /\ project \in Projects
  /\ projectId # "" => project.exists
  /\ cfgMode \in Modes
  /\ previewUrl \in PreviewUrls
  /\ environment \in {"staging", "production"}
  /\ cfgError = ""

\* line 578: a project id was given; the project is not looked up
CfgProjectById ==
  /\ bpc = "project"
  /\ projectId # ""
  /\ bpc' = "mode"
  /\ UNCHANGED <<inputBaseUrl, cfgBaseUrl, projectId, project, cfgMode,
                 previewUrl, environment, cfgError>>
  /\ UNCHANGED <<crawlVars, execVars, runVars, selVars, locVars, waitVars>>

\* lines 578-600: the project of the repository exists; its base_url is
\* used when the input gave none
CfgProjectByRepo ==
  /\ bpc = "project"
  /\ projectId = ""
  /\ project.exists
  /\ projectId' = "p1"
  /\ cfgBaseUrl' = IF cfgBaseUrl = "" /\ project.base_url # ""
                     THEN project.base_url ELSE cfgBaseUrl
  /\ bpc' = "mode"
  /\ UNCHANGED <<inputBaseUrl, project, cfgMode, previewUrl, environment,
                 cfgError>>
  /\ UNCHANGED <<crawlVars, execVars, runVars, selVars, locVars, waitVars>>

\* lines 582-593: no project yet; it is created with the base-url input,
\* or run throws when there is none
CfgCreateProject ==
  /\ bpc = "project"
  /\ projectId = ""
  /\ ~project.exists
  /\ IF cfgBaseUrl = ""
       THEN /\ cfgError' = ErrCreate
            /\ bpc' = "failed"
            /\ UNCHANGED <<project, projectId>>
       ELSE /\ project' = Project(cfgBaseUrl)
            /\ projectId' = "p1"
            /\ bpc' = "mode"
            /\ UNCHANGED cfgError
  /\ UNCHANGED <<inputBaseUrl, cfgBaseUrl, cfgMode, previewUrl, environment>>
  /\ UNCHANGED <<crawlVars, execVars, runVars, selVars, locVars, waitVars>>

\* lines 605-612: Scout Test mode needs no base URL
CfgScoutTest ==
  /\ bpc = "mode"
  /\ cfgMode = "scout-test"
  /\ bpc' = "scoutTest"
  /\ UNCHANGED <<inputBaseUrl, cfgBaseUrl, projectId, project, cfgMode,
                 previewUrl, environment, cfgError>>
  /\ UNCHANGED <<crawlVars, execVars, runVars, selVars, locVars, waitVars>>

\* lines 614-623: the preview URL is looked for when no base URL is known
CfgDetectPreview ==
  /\ bpc = "mode"
  /\ cfgMode # "scout-test"
  /\ IF cfgBaseUrl = "" /\ previewUrl # ""
       THEN /\ cfgBaseUrl' = previewUrl
            /\ environment' = "preview"
       ELSE UNCHANGED <<cfgBaseUrl, environment>>
  /\ bpc' = "check"
  /\ UNCHANGED <<inputBaseUrl, projectId, project, cfgMode, previewUrl,
                 cfgError>>
  /\ UNCHANGED <<crawlVars, execVars, runVars, selVars, locVars, waitVars>>

\* lines 625-629
CfgCheck ==
  /\ bpc = "check"
  /\ IF cfgBaseUrl = ""
       THEN /\ cfgError' = ErrRequired
            /\ bpc' = "failed"
       ELSE /\ bpc' = "resolved"
            /\ UNCHANGED cfgError
  /\ UNCHANGED <<inputBaseUrl, cfgBaseUrl, projectId, project, cfgMode,
                 previewUrl, environment>>
  /\ UNCHANGED <<crawlVars, execVars, runVars, selVars, locVars, waitVars>>

CfgNext ==
  \/ CfgProjectById
  \/ CfgProjectByRepo
  \/ CfgCreateProject
  \/ CfgScoutTest
  \/ CfgDetectPreview
  \/ CfgCheck

(***************************************************************************)
(* executeStep, case 'wait' (executor/playwright.ts, lines 233-236)        *)
(* A string value is a sequence of characters.                             *)
(***************************************************************************)
MaxChars == 3   \* length of a string value of a wait step

Digits == {"0", "1", "5"}
DigitValue(c) == CASE c = "0" -> 0 [] c = "1" -> 1 [] c = "5" -> 5
Chars == Digits \cup {"a", " "}

\* step.value: undefined, a number, or a string
NoValue == [t |-> "undefined", n |-> 0, s |-> <<>>]
NumberValue(n) == [t |-> "number", n |-> n, s |-> <<>>]
StringValue(s) == [t |-> "string", n |-> 0, s |-> s]
WaitValues ==
  {NoValue} \cup {NumberValue(n) : n \in {0, 500, 1000, 2000}}
            \cup {StringValue(s) : s \in SeqsUpTo(Chars, MaxChars)}

NaN == [nan |-> TRUE, n |-> 0]
Num(n) == [nan |-> FALSE, n |-> n]

\* parseInt(s, 10): leading white space is skipped, then the longest prefix
\* of digits is read; NaN when there is no digit
RECURSIVE SkipSpace(_)
SkipSpace(s) == IF s # <<>> /\ Head(s) = " " THEN SkipSpace(Tail(s)) ELSE s

RECURSIVE ReadDigits(_, _)
ReadDigits(s, acc) ==
  IF s # <<>> /\ Head(s) \in Digits
    THEN ReadDigits(Tail(s), 10 * acc + DigitValue(Head(s)))
    ELSE acc

ParseInt(s) ==
  LET r == SkipSpace(s)
  IN  IF r # <<>> /\ Head(r) \in Digits THEN Num(ReadDigits(r, 0)) ELSE NaN

\* line 234: typeof step.value === 'number' ? step.value
\*   : parseInt(step.value?.toString() || '1000', 10)
WaitTime(v) ==
  IF v.t = "number" THEN Num(v.n)
  ELSE IF v.t = "undefined" \/ v.s = <<>> THEN Num(1000)
  ELSE ParseInt(v.s)

WaitIdle ==
  /\ wpc = "idle"
  /\ waitValue = NoValue
  /\ waitTime = Num(0)
  /\ paused = 0
  /\ waitThrew = FALSE

\* a wait step is about to run
WaitInit ==
  /\ wpc = "step"
  /\ waitValue \in WaitValues
  /\ waitTime = Num(0)
  /\ paused = 0
  /\ waitThrew = FALSE

\* line 234
WaitParse ==
  /\ wpc = "step"
  /\ waitTime' = WaitTime(waitValue)
  /\ wpc' = "parsed"
  /\ UNCHANGED <<waitValue, paused, waitThrew>>
  /\ UNCHANGED <<crawlVars, execVars, runVars, selVars, locVars, cfgVars>>

\* line 235: page.waitForTimeout(waitTime); a NaN timeout is not a pause of
\* any length: the timer fires at once or the call is rejected
WaitPause ==
  /\ wpc = "parsed"
  /\ IF waitTime.nan
       THEN \/ paused' = 0 /\ waitThrew' = FALSE
            \/ paused' = 0 /\ waitThrew' = TRUE
       ELSE paused' = waitTime.n /\ waitThrew' = FALSE
  /\ wpc' = "done"
  /\ UNCHANGED <<waitValue, waitTime>>
  /\ UNCHANGED <<crawlVars, execVars, runVars, selVars, locVars, cfgVars>>

WaitNext ==
  \/ WaitParse
  \/ WaitPause

(***************************************************************************)
(* Specifications                                                          *)
(***************************************************************************)
\* one call of crawlSite: any priority paths, anonymous or with credentials
\* without a success indicator
CrawlInit ==
  /\ CrawlCall({c \in CredentialInputs : c.successIndicator = ""},
               SeqsUpTo(PathInputs, MaxPaths))
  /\ ExecIdle
  /\ RunIdle
  /\ SelIdle
  /\ LocIdle
  /\ CfgIdle
  /\ WaitIdle
CrawlSpec == CrawlInit /\ [][CrawlNext]_vars

\* crawlSite with every started step finishing: each await of the loop is
\* bounded by a timeout
CrawlFairSpec == CrawlInit /\ [][CrawlNext]_vars /\ WF_vars(CrawlNext)

\* one call of crawlSite with credentials of every kind
AuthInit ==
  /\ CrawlCall({c \in CredentialInputs : c.present},
               SeqsUpTo({RootRel("/a")}, 1))
  /\ ExecIdle
  /\ RunIdle
  /\ SelIdle
  /\ LocIdle
  /\ CfgIdle
  /\ WaitIdle
AuthSpec == AuthInit /\ [][CrawlNext]_vars

\* one call of executeFlows with arbitrary arguments
ExecOnlyInit ==
  /\ ExecInit
  /\ CrawlIdle
  /\ RunIdle
  /\ SelIdle
  /\ LocIdle
  /\ CfgIdle
  /\ WaitIdle
ExecSpec == ExecOnlyInit /\ [][ExecNext]_vars

\* the extraction of one element of a crawled page
SelOnlyInit ==
  /\ SelInit
  /\ CrawlIdle
  /\ ExecIdle
  /\ RunIdle
  /\ LocIdle
  /\ CfgIdle
  /\ WaitIdle
SelSpec == SelOnlyInit /\ [][SelNext]_vars

\* the resolution of one step's selector against one element
LocOnlyInit ==
  /\ LocInit
  /\ CrawlIdle
  /\ ExecIdle
  /\ RunIdle
  /\ SelIdle
  /\ CfgIdle
  /\ WaitIdle
LocSpec == LocOnlyInit /\ [][LocNext]_vars

\* the first part of run, up to a known base URL
CfgOnlyInit ==
  /\ CfgInit
  /\ CrawlIdle
  /\ ExecIdle
  /\ RunIdle
  /\ SelIdle
  /\ LocIdle
  /\ WaitIdle
CfgSpec == CfgOnlyInit /\ [][CfgNext]_vars

\* the execution of one wait step
WaitOnlyInit ==
  /\ WaitInit
  /\ CrawlIdle
  /\ ExecIdle
  /\ RunIdle
  /\ SelIdle
  /\ LocIdle
  /\ CfgIdle
WaitSpec == WaitOnlyInit /\ [][WaitNext]_vars

\* one E2E run of the action: crawl, plan, flow execution, reporting
Init == RunInit /\ SelIdle /\ LocIdle /\ CfgIdle /\ WaitIdle
Next == RunNext \/ CrawlNext \/ ExecNext
Spec == Init /\ [][Next]_vars

(***************************************************************************)
(* Properties                                                              *)
(***************************************************************************)
Last(s) == s[Len(s)]

\* C1: crawlSite never holds more than maxPages PageContext entries, and no
\* two of them have the same canonical URL.
C1_AtMostMaxPagesDistinct ==
  /\ Len(pages) <= maxPages
  /\ \A i, j \in 1..Len(pages) :
       i # j => Resolve(Abs(pages[i].url.o, pages[i].url.p), baseUrl)
                  # Resolve(Abs(pages[j].url.o, pages[j].url.p), baseUrl)

\* the crawl stopped on the page budget with URLs still queued
C1_Witness ==
  /\ cpc = "done"
  /\ maxPages >= 2
  /\ Len(pages) = maxPages
  /\ toVisit # <<>>

\* the resolved priority paths, and the position of a string in a list
PriorityUrls ==
  {Resolve(priorityPaths[k], baseUrl) :
     k \in {n \in 1..Len(priorityPaths) : Resolvable(priorityPaths[n])}}
IndexOf(q, x) == CHOOSE i \in 1..Len(q) : q[i] = x
FirstPath(u) ==
  CHOOSE k \in 1..Len(priorityPaths) :
    /\ Resolvable(priorityPaths[k])
    /\ Resolve(priorityPaths[k], baseUrl) = u
    /\ \A n \in 1..(k - 1) :
         ~(Resolvable(priorityPaths[n])
           /\ Resolve(priorityPaths[n], baseUrl) = u)

\* C4: every resolvable priority path is seeded ahead of the landing URL
\* and of baseUrl, and the collected priority pages keep the order of the
\* priorityPaths argument.
C4_PriorityFirst ==
  /\ initialQueue # <<>> =>
       \A u \in PriorityUrls :
         /\ Includes(initialQueue, u)
         /\ \A v \in {StartUrl(authResult, baseUrl), baseUrl} \ PriorityUrls :
              Includes(initialQueue, v) =>
                IndexOf(initialQueue, u) < IndexOf(initialQueue, v)
  /\ \A i, j \in 1..Len(pages) :
       (i < j /\ pages[i].url \in PriorityUrls /\ pages[j].url \in PriorityUrls)
         => FirstPath(pages[i].url) < FirstPath(pages[j].url)

\* two different priority pages were collected after a successful login
\* whose landing URL is a third URL
C4_Witness ==
  /\ cpc = "done"
  /\ authResult.success
  /\ authResult.postLoginUrl \notin PriorityUrls
  /\ Len(pages) >= 2
  /\ pages[1].url \in PriorityUrls
  /\ pages[2].url \in PriorityUrls

\* C6: when the page is still at a /login or /signin URL after the submit,
\* authenticate returns success = false with an error string, with or
\* without a success indicator.
C6_LoginUrlFails ==
  /\ (cpc = "authClose" /\ stillOnLogin) =>
       /\ pendingAuth.defined
       /\ ~pendingAuth.success
       /\ pendingAuth.error # ""
  /\ (authResult.defined /\ stillOnLogin) =>
       /\ ~authResult.success
       /\ authResult.error # ""

\* the configured URL indicator was satisfied by a URL that is still a
\* login URL
C6_Witness ==
  /\ authResult.defined
  /\ stillOnLogin
  /\ credentials.successIndicator = "/a"
  /\ authResult.error = "Login failed - still on login page after submit"

\* the results of the click-failure case of the login flow
ClickFailed(r) ==
  /\ r.flow_name = FlowLogin.name
  /\ r.status = "failed"
  /\ r.error_message = FlowLogin.steps[3].description
Count(seq, P(_)) == Cardinality({i \in 1..Len(seq) : P(seq[i])})

\* C2 as stated: the payload of the flow whose click fails has exactly two
\* StepResult entries.
C2_TwoStepResults ==
  \A k \in 1..Len(results) :
    ClickFailed(results[k]) => Len(results[k].steps) = 2

\* C2 amended: the payload of the flow whose click fails has status failed,
\* three StepResult entries (navigate and fill passed, click failed) and one
\* screenshot, named by flow id, viewport and step index 2; a viewport that
\* is requested once has one such payload.
C2_ThreeStepResults ==
  \A k \in 1..Len(results) :
    LET r == results[k] IN
    ClickFailed(r) =>
      /\ Len(r.steps) = 3
      /\ r.steps[1].status = "passed"
      /\ r.steps[2].status = "passed"
      /\ r.steps[3].status = "failed"
      /\ r.screenshot_urls = << <<FlowLogin.id, r.viewport, "failure", 2>> >>
      /\ LET SameRun(x) == x.flow_name = r.flow_name /\ x.viewport = r.viewport
             Named(v) == v = r.viewport
         IN  Count(results, SameRun) <= Count(viewports, Named)

C2_Witness ==
  /\ epc = "done"
  /\ \E k \in 1..Len(results) : ClickFailed(results[k])

\* C3: once the elapsed time exceeds maxDurationMs no further flow/viewport
\* combination is begun, so the results hold nothing of the later
\* combinations; a payload is passed or failed, never skipped.
C3_NothingAfterBudget ==
  /\ [](/\ Len(results) <= Len(contextLog)
        /\ \A k \in 1..Len(results) :
             /\ results[k].status \in {"passed", "failed"}
             /\ results[k].flow_name = contextLog[k].flow
             /\ results[k].viewport = contextLog[k].viewport)
  /\ [][now > maxDurationMs => contextLog' = contextLog]_vars

\* the budget ran out after a first execution and left combinations out
C3_Witness ==
  /\ epc = "done"
  /\ now > maxDurationMs
  /\ Len(results) >= 1
  /\ Len(results) < Len(viewports) * Len(flows)

\* C5: when the budget was never exceeded, executeFlows returns one payload
\* per viewport and flow, viewport by viewport, tagged with its viewport.
C5_AllCombinations ==
  (epc = "done" /\ ~(now > maxDurationMs)) =>
    /\ Len(results) = Len(viewports) * Len(flows)
    /\ \A v \in 1..Len(viewports) :
         /\ \A j \in 1..Len(flows) :
              results[(v - 1) * Len(flows) + j].viewport = viewports[v]
         /\ \A f \in Range(flows) :
              \E j \in 1..Len(flows) :
                results[(v - 1) * Len(flows) + j].flow_name = f.name

C5_Witness ==
  /\ epc = "done"
  /\ viewports = <<"desktop", "mobile">>
  /\ Len(flows) = 2
  /\ Len(results) = 4

C7_NoIdSelectorForColonId ==
  (spc = "done" /\ collected /\ HasColon(elem.id)) => selector[1] # "#"

C10_NonFormAnonymous ==
  (account.present /\ account.auth_type # "form") =>
    /\ authAttempts = 0
    /\ execAuthAttempts = 0

\* C11: a URL whose crawl threw is not among the collected pages, the error
\* does not leave crawlSite, and the crawl ends only with the queue empty or
\* the page budget reached.
C11_PageFailureConfined ==
  /\ \A u \in failedUrls : \A i \in 1..Len(pages) : pages[i].url # u
  /\ failedUrls # {} => cpc # "thrown"
  /\ (cpc = "done" /\ failedUrls # {}) =>
       (toVisit = <<>> \/ Len(pages) >= maxPages)

\* a page failed and a URL queued behind it was crawled afterwards
C11_Witness ==
  /\ cpc = "done"
  /\ \E i, j \in 1..Len(navigated) :
       /\ i < j
       /\ navigated[i] \in failedUrls
       /\ \E k \in 1..Len(pages) : pages[k].url = navigated[j]

\* C12: a payload of a flow whose steps all succeeded carries exactly one
\* screenshot path, the final one of that flow and viewport, also when the
\* flow has steps of action 'screenshot'.
C12_OneFinalScreenshot ==
  /\ \A i \in 1..Len(results) :
       results[i].status = "passed" =>
         \E f \in Range(flows) :
           /\ f.name = results[i].flow_name
           /\ Len(results[i].steps) = Len(f.steps)
           /\ results[i].screenshot_urls = <<FinalShot(f, results[i].viewport)>>
  /\ (epc = "flowClose" /\ flowStatus = "passed" /\ throwing = "") =>
       screenshotUrls = <<FinalShot(CurFlow, CurViewport)>>

\* a flow with a 'screenshot' step and another step passed
C12_Witness ==
  \E i \in 1..Len(results) :
    /\ results[i].status = "passed"
    /\ results[i].flow_name = FlowShots.name
    /\ Len(results[i].steps) = 2
    /\ \E k \in 1..Len(FlowShots.steps) :
         FlowShots.steps[k].action = "screenshot"

\* the segments of a selector, and whether one segment alone, read as a
\* text match (text=) or as a structural selector, resolves to an element
SegmentsOf(s) == [i \in 1..Len(SplitComma(s)) |-> Trim(SplitComma(s)[i])]
SegmentMatches(seg, el) ==
  IF StartsWithText(seg) THEN ContainsText(el.content, StripQuotes(Tail(seg)))
  ELSE seg \in el.css

\* C13: a selector text="T" resolves to the elements whose text matches T,
\* and a comma-separated selector with at least one text= segment resolves
\* to the elements that one of its segments resolves to.
C13_TextAndOrResolution ==
  lpc = "acted" =>
    LET segs == SegmentsOf(locSelector)
    IN  /\ (Len(segs) = 1 /\ StartsWithText(segs[1])) =>
             (locMatched <=> SegmentMatches(segs[1], locElement))
        /\ (Len(segs) > 1 /\ \E i \in 1..Len(segs) : StartsWithText(segs[i])) =>
             (locMatched <=>
                \E i \in 1..Len(segs) : SegmentMatches(segs[i], locElement))

\* C14: every collected element that has a data-testid attribute gets the
\* test-id attribute selector, whatever its other attributes are.
C14_TestIdFirst ==
  (spc = "done" /\ collected /\ elem.testid # "") =>
    selector = <<"[data-testid=]", elem.testid>>

\* an element with a test id and with other identifying attributes
C14_Witness ==
  /\ spc = "done"
  /\ collected
  /\ elem.testid # ""
  /\ elem.id # ""
  /\ \/ elemKind = "link" /\ elem.href # "" /\ elem.text # ""
     \/ elemKind = "formInput" /\ elem.name # "" /\ elem.label # ""

\* C15: without a base-url input, an E2E run goes on with the base URL of
\* the project configuration or of a detected preview deployment, and it
\* fails for lack of a base URL only when neither has one.
C15_BaseUrlFallback ==
  (inputBaseUrl = "" /\ cfgMode # "scout-test") =>
    /\ bpc = "resolved" => cfgBaseUrl \in {project.base_url, previewUrl} \ {""}
    /\ bpc = "failed" => (project.base_url = "" /\ previewUrl = "")

\* C16: the StepResults of a payload follow, in order, a prefix of the
\* flow's steps; a passed payload has one passed StepResult per step; a
\* failed payload has exactly one failed StepResult, the last one, with the
\* error, and nothing for the steps behind it.
C16_StepResultsArePrefix ==
  \A k \in 1..Len(results) :
    LET r == results[k] IN
    \E f \in Range(flows) :
      /\ f.name = r.flow_name
      /\ Len(r.steps) <= Len(f.steps)
      /\ \A j \in 1..Len(r.steps) :
           r.steps[j].description = f.steps[j].description
      /\ r.status = "passed" =>
           /\ Len(r.steps) = Len(f.steps)
           /\ \A j \in 1..Len(r.steps) : r.steps[j].status = "passed"
      /\ r.status = "failed" =>
           /\ r.steps # <<>>
           /\ Last(r.steps).status = "failed"
           /\ Last(r.steps).error # ""
           /\ \A j \in 1..(Len(r.steps) - 1) : r.steps[j].status = "passed"

\* a flow failed at a step that is neither its first nor its last
C16_Witness ==
  \E k \in 1..Len(results) :
    /\ results[k].status = "failed"
    /\ Len(results[k].steps) = 2
    /\ results[k].flow_name = FlowLogin.name

\* C17: every URL the crawl loop appends to the queue for a link of a
\* crawled page has the origin of baseUrl.
C17_EnqueuedSameOrigin ==
  [][cpc = "fetch" =>
       \A i \in (Len(toVisit) + 1)..Len(toVisit') :
         toVisit'[i].o = baseUrl.o]_vars

\* C18: when the executor's login page is still at a /login or /signin URL
\* after the submit, no storage state is kept and no flow context is
\* opened with one.
C18_ExecLoginUrlFails ==
  execStillOnLogin =>
    /\ ~storageState
    /\ \A k \in 1..Len(contextLog) : ~contextLog[k].seeded

\* positions of the queue that hold a URL, compared by canonical form
PositionsOf(q, u) == {i \in 1..Len(q) : Canon(q[i]) = Canon(u)}

\* C19: the seeded queue holds the resolvable priority paths, then the
\* landing URL of the login, then baseUrl, each ahead of the next, and no
\* two of its entries have the same canonical form.
C19_InitialQueueNoDuplicate ==
  initialQueue # <<>> =>
    LET start == StartUrl(authResult, baseUrl) IN
    /\ \A u \in PriorityUrls \cup {start, baseUrl} :
         Cardinality(PositionsOf(initialQueue, u)) = 1
    /\ \A u \in PriorityUrls :
         \A v \in {w \in {start, baseUrl} :
                     \A x \in PriorityUrls : Canon(x) # Canon(w)} :
           \A i \in PositionsOf(initialQueue, u) :
             \A j \in PositionsOf(initialQueue, v) : i < j
    /\ (\A x \in PriorityUrls : Canon(x) # Canon(baseUrl)) =>
         \A i \in PositionsOf(initialQueue, start) :
           \A j \in PositionsOf(initialQueue, baseUrl) : i <= j
    /\ \A i \in 1..Len(initialQueue) :
         initialQueue[i] \in PriorityUrls \cup {start, baseUrl}

\* C20: no canonical URL is handed to the page crawl twice; the URL being
\* crawled is already in the visited set, and a URL whose crawl failed is
\* in the visited set and is not attempted again.
C20_NavigatedOnce ==
  /\ \A i, j \in 1..Len(navigated) :
       i # j => Canon(navigated[i]) # Canon(navigated[j])
  /\ cpc \in {"open", "fetch", "close"} => cur \in visited
  /\ failedUrls \subseteq visited
  /\ cpc \in {"open", "fetch"} => cur \notin failedUrls

\* a crawl failed, the crawl went on, and a URL that was queued twice was
\* dequeued twice
C20_Witness ==
  /\ cpc = "done"
  /\ toVisit = <<>>
  /\ \E i \in 1..(Len(navigated) - 1) : navigated[i] \in failedUrls
  /\ \E u \in Range(navigated) :
       Cardinality(PositionsOf(initialQueue, u)) = 2

\* C21: a flow is begun only while the elapsed time is within the budget;
\* once begun, its steps are left only through the end of the flow, and
\* unless an exception propagates its payload is pushed, whatever the
\* elapsed time is by then: between flows every begun flow has its payload.
C21_BudgetBetweenFlowsOnly ==
  /\ [](epc \in {"viewport", "flow", "viewportEnd", "return", "done"} =>
          Len(results) = Len(contextLog))
  /\ [][(epc = "flow" /\ epc' = "step") => ~(now > maxDurationMs)]_vars
  /\ [][(epc \in {"step", "failShot"}) =>
          (epc' \in {"step", "failShot", "flowClose"})]_vars
  /\ [][(epc = "flowClose" /\ throwing = "") =>
          Len(results') = Len(results) + 1]_vars

\* the budget ran out inside a flow, and the flow's payload was pushed
C21_Witness ==
  /\ epc = "flow"
  /\ testAccount = NoAccount
  /\ now > maxDurationMs
  /\ results # <<>>
  /\ Len(results) = Len(contextLog)

\* the flow of a payload (flow names are pairwise different)
FlowOf(r) == CHOOSE f \in Range(flows) : f.name = r.flow_name

\* C22: the flows are sorted once, by descending priority; the results are
\* a prefix of the schedule that runs all sorted flows under the first
\* viewport, then under the next, so that within a viewport the priorities
\* of the results do not increase.
C22_ViewportMajorSchedule ==
  /\ [](/\ sortedFlows # <<>> =>
             /\ Len(sortedFlows) = Len(flows)
             /\ Range(sortedFlows) = Range(flows)
             /\ \A i, j \in 1..Len(sortedFlows) :
                  i < j => sortedFlows[i].priority >= sortedFlows[j].priority
        /\ \A k \in 1..Len(results) :
             /\ results[k].viewport =
                  viewports[((k - 1) \div Len(flows)) + 1]
             /\ results[k].flow_name =
                  sortedFlows[((k - 1) % Len(flows)) + 1].name
        /\ \A k \in 1..(Len(results) - 1) :
             (k % Len(flows) # 0) =>
               FlowOf(results[k]).priority >= FlowOf(results[k + 1]).priority)
  /\ [][sortedFlows # <<>> => sortedFlows' = sortedFlows]_vars

\* flows given in ascending priority were run under two viewports
C22_Witness ==
  /\ epc = "done"
  /\ Len(viewports) = 2
  /\ Len(flows) = 2
  /\ flows[1].priority < flows[2].priority
  /\ Len(results) = 4

\* C23: at most one tab or context is open at a time and none between the
\* units of work; when crawlSite or executeFlows has returned or thrown, no
\* tab and no context is open and the browser is closed.
C23_EverythingClosed ==
  /\ openTabs \in 0..1
  /\ openContexts \in 0..1
  /\ cpc \in {"seed", "loop", "open", "done", "thrown"} => openTabs = 0
  /\ epc \in {"viewport", "flow", "viewportEnd", "return", "done", "thrown"}
       => openContexts = 0
  /\ cpc \in {"done", "thrown"} => ~browserOpen
  /\ epc \in {"done", "thrown"} => ~execBrowser

\* C24: a wait step pauses for its value when that is a number or a string
\* a number can be read from, and for 1000 ms when the value is absent or
\* no number can be read from it.
C24_WaitDuration ==
  wpc = "done" =>
    /\ ~waitThrew
    /\ paused = IF waitValue.t = "number" THEN waitValue.n
                ELSE IF waitValue.t = "string" /\ ~ParseInt(waitValue.s).nan
                  THEN ParseInt(waitValue.s).n
                ELSE 1000

\* the selector of the first applicable rule, in the order: test id, name,
\* placeholder, label text, type email/password, id without ':', type within
\* the container, position
FirstApplicableRule(input, type, within, j) ==
  IF input.testid # "" THEN <<"[data-testid=]", input.testid>>
  ELSE IF input.name # "" THEN <<"[name=]", input.name>>
  ELSE IF input.placeholder # "" THEN <<"[placeholder=]", input.placeholder>>
  ELSE IF input.label # ""
    THEN <<"text= >> .. >> input", Truncate30(input.label)>>
  ELSE IF type \in {"email", "password"} THEN <<"input[type=]", type>>
  ELSE IF input.id # "" /\ ~HasColon(input.id) THEN <<"#", input.id>>
  ELSE IF type # "" THEN <<"form input[type=]", within, type>>
  ELSE <<"form input >> nth=", within, j>>

\* C25: the selector of every collected input, of a form or standalone, is
\* the one of the first applicable rule in the order test id, name,
\* placeholder, label text, type email/password, id without illegal
\* characters, type within the container, position.
C25_InputRuleOrder ==
  /\ (spc = "done" /\ collected /\ elemKind = "formInput") =>
       selector = FirstApplicableRule(elem, FormInputType(elem), container,
                                      elemIndex)
  /\ (spc = "done" /\ collected /\ elemKind = "input") =>
       selector = FirstApplicableRule(elem, StandaloneInputType(elem),
                                      container, elemIndex)

\* C26: every flow execution opens a new context of its own, seeded from the
\* stored login state exactly when authentication succeeded, while no other
\* context is open; the stored login state is written only by the login of
\* authenticate, which runs at most once, and no flow execution changes it.
C26_FreshContextPerFlow ==
  /\ [](execAuthAttempts <= 1)
  /\ [](epc \in {"step", "failShot", "flowClose"} =>
          (/\ openContexts = 1
           /\ contextLog # <<>>
           /\ Last(contextLog).flow = CurFlow.id
           /\ Last(contextLog).viewport = CurViewport
           /\ Last(contextLog).seeded = storageState))
  /\ [][(epc = "flow" /\ epc' = "step") =>
          (/\ openContexts = 0
           /\ openContexts' = 1
           /\ Len(contextLog') = Len(contextLog) + 1)]_vars
  /\ [][(Len(contextLog') # Len(contextLog)) =>
          (epc = "flow" /\ epc' = "step")]_vars
  /\ [][(storageState' # storageState) =>
          (epc = "authLogin" /\ execAuthAttempts = 1 /\ contextLog = <<>>)]_vars

\* two flows ran after a successful login, each in a seeded context
C26_Witness ==
  /\ epc = "done"
  /\ storageState
  /\ Len(contextLog) >= 2
  /\ Len(results) = Len(contextLog)
  /\ \A k \in 1..Len(contextLog) : contextLog[k].seeded

\* C27: crawlSite terminates for every maxPages, whatever the pages link to
\* and also when fetches fail: every loop iteration removes the head of the
\* queue, and a fetch only appends URLs that are neither visited nor queued,
\* each once.
C27_CrawlTerminates ==
  /\ <>(cpc \in {"done", "thrown"})
  /\ [][(cpc = "loop" /\ cpc' # "done") => (toVisit' = Tail(toVisit))]_vars
  /\ [][(toVisit' # toVisit /\ cpc \notin {"loop", "seed"}) =>
          (/\ cpc = "fetch"
           /\ Len(toVisit') > Len(toVisit)
           /\ SubSeq(toVisit', 1, Len(toVisit)) = toVisit
           /\ \A k \in (Len(toVisit) + 1)..Len(toVisit') :
                /\ toVisit'[k] \notin visited
                /\ \A j \in 1..(k - 1) : toVisit'[j] # toVisit'[k])]_vars

\* a crawl that came to its end after a page linked back to a visited page
\* and after a fetch failed
C27_Witness ==
  /\ cpc = "done"
  /\ failedUrls # {}
  /\ Len(pages) >= 2
  /\ Len(navigated) > Len(pages)

\* C28: crawlSite returns only when maxPages pages are collected or the
\* queue is empty; a failed page is not collected, so it does not count
\* toward maxPages and more than maxPages URLs may be navigated.
C28_ReturnOnlyWhenDone ==
  /\ cpc = "done" => (Len(pages) >= maxPages \/ toVisit = <<>>)
  /\ Len(pages) <= Len(navigated)
  /\ \A k \in 1..Len(pages) : pages[k].url \notin failedUrls
  /\ cpc \in {"seed", "loop", "open", "done"} =>
       Len(navigated) = Len(pages) + Cardinality(failedUrls \cap Range(navigated))

\* a finished crawl that navigated to more URLs than maxPages
C28_Witness ==
  /\ cpc = "done"
  /\ maxPages > 0
  /\ Len(pages) = maxPages
  /\ Len(navigated) > maxPages

\* the run-lifecycle calls in their order
Lifecycle == <<"startRun", "executeFlows", "uploadResults", "completeRun">>

\* C29: in an E2E run the calls startRun, executeFlows, uploadResults and
\* completeRun are made in this order, each at most once; completeRun is
\* called only after executeFlows and uploadResults returned without
\* throwing, and after an exception no further call is made: the action
\* ends failed.
C29_LifecycleOrder ==
  /\ [](\E n \in 0..Len(Lifecycle) : apiCalls = SubSeq(Lifecycle, 1, n))
  /\ [][(apiCalls' # apiCalls /\ Last(apiCalls') = "completeRun") =>
          (rpc = "complete")]_vars
  /\ [][(rpc' = "complete" /\ rpc # "complete") =>
          (/\ rpc = "execute"
           /\ epc = "done"
           /\ Last(apiCalls') = "uploadResults")]_vars
  /\ [][(rpc = "execute" /\ epc = "thrown") => (rpc' = "failed")]_vars
  /\ [][(rpc = "failed") => (rpc' = "failed" /\ apiCalls' = apiCalls)]_vars

\* executeFlows threw after startRun: the run failed, nothing was uploaded
\* or completed
C29_Witness ==
  /\ rpc = "failed"
  /\ epc = "thrown"
  /\ apiCalls = <<"startRun", "executeFlows">>

\* C30: the overall status is 'failed' exactly when a returned payload has
\* status failed; flows skipped for the budget return no payload and do not
\* count, and a run in which no flow was executed reports 'passed'.
C30_OverallStatus ==
  overallStatus # "" =>
    /\ overallStatus \in {"passed", "failed"}
    /\ overallStatus = "failed" <=>
         \E k \in 1..Len(results) : results[k].status = "failed"
    /\ \A k \in 1..Len(results) : results[k].status \in {"passed", "failed"}
    /\ results = <<>> => overallStatus = "passed"

\* a run with a plan and a viewport whose budget ran out ahead of the first
\* flow
C30_Witness ==
  /\ rpc = "end"
  /\ testPlan # <<>>
  /\ viewports # <<>>
  /\ results = <<>>
  /\ apiCalls = Lifecycle
  /\ overallStatus = "passed"
====
